---- MODULE Spec2Model ----
(***************************************************************************)
(* TrendPulse: the topic cache / refresh policy of the App component and   *)
(* the retrying fetch client of services/geminiService.ts.                 *)
(*                                                                         *)
(* Times are milliseconds, as Date.now() and setTimeout count them.        *)
(* A response text is a sequence of tokens: the literals TOPIC_START and   *)
(* TOPIC_END, the pipe, the line feed, the carriage return, the blank and  *)
(* word tokens.  A string field of a Topic is a sequence of tokens.        *)
(***************************************************************************)
EXTENDS Integers, Sequences, FiniteSets, TLC

VARIABLES
  now,          \* Date.now()
  storage,      \* localStorage[STORAGE_KEY]
  topics,       \* the nine useState topic lists, by section id
  loading,      \* useState loading
  refreshing,   \* useState refreshing
  error,        \* useState error (Null or the message)
  lastUpdated,  \* useState lastUpdated (Null or a time)
  loads,        \* the invocations of loadTopics so far, in order of their start
  nextTick,     \* the time at which the setInterval callback fires next
  mounted,      \* whether the mount effects have run
  ticks,        \* number of interval callbacks that have fired
  faults,       \* counts of what the environment did: calls that did not answer
                \* usable text, rate-limit signals, timers that fired while a
                \* call was still in flight
  limits,       \* how many cycles, ticks and faults this exploration allows
  fetch,        \* one category fetch on its own: stage, category, start, call
  plines,       \* parser harness: the lines of the response text
  pstage,       \* parser harness: "build" or "parsed"
  pcat,         \* parser harness: the category the text was parsed for
  pout,         \* parser harness: the result of the category fetch
  savedItem,        \* localStorage[SAVED_STORAGE_KEY]
  prefsItem,        \* localStorage[PREFS_KEY]
  savedTopics,      \* useState savedTopics
  visibleSections,  \* useState visibleSections
  appPhase,         \* "start" before the first render, then "ready" or "crashed"
  effects,          \* the persistence effects that have yet to run
  toggled,          \* the toggles so far, each with the state it found
  ask,              \* one call of fetchTopicDetails or fetchChatResponse on its
                    \* own: operation, stage, start, call record
  session,          \* page loads: how many reloads, and what the page that was
                    \* left had on display and had persisted
  view,             \* useState view: "GRID" or "DETAIL"
  selectedTopic,    \* useState selectedTopic: <<>> for null, or <<topic>>
  timers,           \* due times of the setTimeout callbacks of handleBack
  details           \* the DetailView instances so far, one per mount: topic,
                    \* the mounted flag of the effect's closure, the state of
                    \* its request, useState info and loading

vars == <<now, storage, topics, loading, refreshing, error, lastUpdated, loads,
          nextTick, mounted, ticks, faults, limits, fetch, plines, pstage, pcat, pout,
          savedItem, prefsItem, savedTopics, visibleSections, appPhase, effects,
          toggled, ask, session, view, selectedTopic, timers, details>>

appVars == <<now, storage, topics, loading, refreshing, error, lastUpdated, loads,
             nextTick, mounted, ticks, faults, limits>>

appState == <<storage, topics, loading, refreshing, error, lastUpdated, loads,
              nextTick, mounted, ticks, faults, limits>>

parseVars == <<plines, pstage, pcat, pout>>

fetchVars == <<fetch>>

libVars == <<savedItem, prefsItem, savedTopics, visibleSections, appPhase, effects,
             toggled>>

askVars == <<ask>>

sessionVars == <<session>>

viewVars == <<view, selectedTopic, timers, details>>

(***************************************************************************)
(* Program constants                                                       *)
(***************************************************************************)
REFRESH_INTERVAL == 8 * 60 * 60 * 1000

TickIntervalMs == 60000

BatchPauseMs == 1500

BackoffUnitMs == 2000

BackoffSteps == 4

DefaultRetries == 3

MaxTopics == 10

Null == "null"

NoTime == 0 - 1

ErrorMessage == "Failed to load trending topics. Please check your connection."

(***************************************************************************)
(* Bounds of the model                                                     *)
(***************************************************************************)
MaxCycles == 2

MaxTicks == 1

MaxSlow == 1

MaxFetchFaults == 9

MaxFetchSignals == 1

MaxLines == 12

\* Clicks on bookmarks and section switches in one exploration.
MaxToggles == 3

\* Grounding chunks in one response.
MaxChunks == 8

MaxReloads == 1

MaxClicks == 3

(***************************************************************************)
(* Sections, batches, category prefixes, fallback data                     *)
(***************************************************************************)
SECTIONS_CONFIG ==
  <<"news", "tech", "music", "billboard", "hiphop", "memes", "gaming",
    "landscapes", "wildlife">>

Sections == {SECTIONS_CONFIG[i] : i \in 1..Len(SECTIONS_CONFIG)}

Batches ==
  << <<"news", "tech">>,
     <<"music", "billboard", "hiphop">>,
     <<"memes", "gaming">>,
     <<"landscapes", "wildlife">> >>

BatchMembers(k) == {Batches[k][i] : i \in 1..Len(Batches[k])}

BatchOf(cat) == CHOOSE k \in 1..Len(Batches) : cat \in BatchMembers(k)

CategoryPrefix(cat) ==
  CASE cat = "memes" -> "meme"
    [] cat = "landscapes" -> "landscape"
    [] OTHER -> cat

Fallback_news ==
  <<
     [id |-> <<"f-news-1">>, title |-> <<"Global Summit 2024">>, category |-> <<"Politics">>,
      description |-> <<"World leaders gather to discuss climate and trade.">>, imageUrl |-> <<"Summit">>],
     [id |-> <<"f-news-2">>, title |-> <<"Economic Shift">>, category |-> <<"Economy">>,
      description |-> <<"New inflation data impacts global markets.">>, imageUrl |-> <<"Economy">>],
     [id |-> <<"f-news-3">>, title |-> <<"Tech Regulation">>, category |-> <<"Policy">>,
      description |-> <<"Congress discusses new bills for AI safety.">>, imageUrl |-> <<"Congress">>],
     [id |-> <<"f-news-4">>, title |-> <<"Space Mission">>, category |-> <<"Science">>,
      description |-> <<"Historic landing on the lunar south pole.">>, imageUrl |-> <<"Moon">>],
     [id |-> <<"f-news-5">>, title |-> <<"Election Update">>, category |-> <<"Politics">>,
      description |-> <<"Latest polling numbers show a tight race.">>, imageUrl |-> <<"Vote">>],
     [id |-> <<"f-news-6">>, title |-> <<"Urban Renewal">>, category |-> <<"Infrastructure">>,
      description |-> <<"Major cities announce green energy plans.">>, imageUrl |-> <<"City">>]
  >>

Fallback_tech ==
  <<
     [id |-> <<"f-tech-1">>, title |-> <<"Next-Gen Models">>, category |-> <<"AI">>,
      description |-> <<"The latest LLM benchmarks shatter expectations.">>, imageUrl |-> <<"Robot">>],
     [id |-> <<"f-tech-2">>, title |-> <<"Dev Tools 2.0">>, category |-> <<"Software">>,
      description |-> <<"How coding assistants are changing development.">>, imageUrl |-> <<"Code">>],
     [id |-> <<"f-tech-3">>, title |-> <<"Quantum Leap">>, category |-> <<"Innovation">>,
      description |-> <<"New breakthrough in quantum computing stability.">>, imageUrl |-> <<"Quantum">>],
     [id |-> <<"f-tech-4">>, title |-> <<"VR Headset War">>, category |-> <<"Hardware">>,
      description |-> <<"Competitors launch affordable mixed reality gear.">>, imageUrl |-> <<"VR">>],
     [id |-> <<"f-tech-5">>, title |-> <<"Open Source Wins">>, category |-> <<"Community">>,
      description |-> <<"Major corporation open sources key library.">>, imageUrl |-> <<"Linux">>],
     [id |-> <<"f-tech-6">>, title |-> <<"Cybersecurity Alert">>, category |-> <<"Security">>,
      description |-> <<"New zero-day vulnerability affects millions.">>, imageUrl |-> <<"Lock">>]
  >>

Fallback_music ==
  <<
     [id |-> <<"f-music-1">>, title |-> <<"Pop Star Return">>, category |-> <<"Mainstream">>,
      description |-> <<"Legendary artist announces surprise tour.">>, imageUrl |-> <<"Microphone">>],
     [id |-> <<"f-music-2">>, title |-> <<"Indie Breakout">>, category |-> <<"Alternative">>,
      description |-> <<"Underground band hits mainstream success.">>, imageUrl |-> <<"Guitar">>],
     [id |-> <<"f-music-3">>, title |-> <<"Award Snubs">>, category |-> <<"Awards">>,
      description |-> <<"Fans outrage over recent nominations.">>, imageUrl |-> <<"Trophy">>],
     [id |-> <<"f-music-4">>, title |-> <<"Festival Lineup">>, category |-> <<"Live">>,
      description |-> <<"Summer festival headliners revealed.">>, imageUrl |-> <<"Festival">>],
     [id |-> <<"f-music-5">>, title |-> <<"Country Crossover">>, category |-> <<"Country">>,
      description |-> <<"Country hit goes viral globally.">>, imageUrl |-> <<"Banjo">>],
     [id |-> <<"f-music-6">>, title |-> <<"Supergroup Formed">>, category |-> <<"Rock">>,
      description |-> <<"Famous rockers unite for new project.">>, imageUrl |-> <<"Drum">>]
  >>

Fallback_billboard ==
  <<
     [id |-> <<"f-bb-1">>, title |-> <<"New #1 Hit">>, category |-> <<"Hot 100">>,
      description |-> <<"The song that just dethroned the reigning champion.">>, imageUrl |-> <<"Chart1">>],
     [id |-> <<"f-bb-2">>, title |-> <<"Record Breaker">>, category |-> <<"History">>,
      description |-> <<"Artist breaks record for most weeks at top.">>, imageUrl |-> <<"Record">>],
     [id |-> <<"f-bb-3">>, title |-> <<"Album Debut">>, category |-> <<"Billboard 200">>,
      description |-> <<"Massive first-week sales numbers released.">>, imageUrl |-> <<"Album">>],
     [id |-> <<"f-bb-4">>, title |-> <<"Sleeper Hit">>, category |-> <<"Rising">>,
      description |-> <<"Song from last year suddenly enters Top 10.">>, imageUrl |-> <<"ArrowUp">>],
     [id |-> <<"f-bb-5">>, title |-> <<"Global 200">>, category |-> <<"World">>,
      description |-> <<"K-Pop group dominates global streaming charts.">>, imageUrl |-> <<"GlobeMusic">>],
     [id |-> <<"f-bb-6">>, title |-> <<"Longest Running">>, category |-> <<"Legacy">>,
      description |-> <<"Track spends 52 weeks on the chart.">>, imageUrl |-> <<"Calendar">>]
  >>

Fallback_hiphop ==
  <<
     [id |-> <<"f-hh-1">>, title |-> <<"Viral Rap Beef">>, category |-> <<"Hip-Hop">>,
      description |-> <<"Diss tracks exchange heats up between titans.">>, imageUrl |-> <<"Rap">>],
     [id |-> <<"f-hh-2">>, title |-> <<"New Album Drop">>, category |-> <<"Release">>,
      description |-> <<"Highly anticipated album dominates streaming.">>, imageUrl |-> <<"Vinyl">>],
     [id |-> <<"f-hh-3">>, title |-> <<"Producer Tag">>, category |-> <<"Production">>,
      description |-> <<"The producer tag everyone is hearing right now.">>, imageUrl |-> <<"Beat">>],
     [id |-> <<"f-hh-4">>, title |-> <<"Fashion Week">>, category |-> <<"Culture">>,
      description |-> <<"Rappers taking over the runway in Paris.">>, imageUrl |-> <<"Fashion">>],
     [id |-> <<"f-hh-5">>, title |-> <<"Underground King">>, category |-> <<"Rising">>,
      description |-> <<"SoundCloud rapper breaks into mainstream.">>, imageUrl |-> <<"Mic">>],
     [id |-> <<"f-hh-6">>, title |-> <<"Classic Sample">>, category |-> <<"History">>,
      description |-> <<"90s hit sampled in top charting song.">>, imageUrl |-> <<"Boombox">>]
  >>

Fallback_memes ==
  <<
     [id |-> <<"f-meme-1">>, title |-> <<"Skibidi Variants">>, category |-> <<"Viral">>,
      description |-> <<"The endless evolution of the toilet head phenomenon.">>, imageUrl |-> <<"Toilet">>],
     [id |-> <<"f-meme-2">>, title |-> <<"Fanum Tax">>, category |-> <<"Slang">>,
      description |-> <<"The internet culture of food sharing and theft.">>, imageUrl |-> <<"Food">>],
     [id |-> <<"f-meme-3">>, title |-> <<"Corecore">>, category |-> <<"Aesthetic">>,
      description |-> <<"Nihilistic video collages taking over TikTok.">>, imageUrl |-> <<"Mood">>],
     [id |-> <<"f-meme-4">>, title |-> <<"NPC Streaming">>, category |-> <<"Live">>,
      description |-> <<"Creators acting like video game characters.">>, imageUrl |-> <<"NPC">>],
     [id |-> <<"f-meme-5">>, title |-> <<"Grimace Shake">>, category |-> <<"Throwback">>,
      description |-> <<"The purple drink horror trend returns.">>, imageUrl |-> <<"Shake">>],
     [id |-> <<"f-meme-6">>, title |-> <<"Roman Empire">>, category |-> <<"Discussion">>,
      description |-> <<"How often do men think about the Roman Empire?">>, imageUrl |-> <<"Roman">>]
  >>

Fallback_gaming ==
  <<
     [id |-> <<"f-game-1">>, title |-> <<"GTA VI Leaks">>, category |-> <<"Rumor">>,
      description |-> <<"Analyzing the latest frame-by-frame details.">>, imageUrl |-> <<"GTA">>],
     [id |-> <<"f-game-2">>, title |-> <<"Esports Finals">>, category |-> <<"Esports">>,
      description |-> <<"Record-breaking viewership at the latest major.">>, imageUrl |-> <<"Esports">>],
     [id |-> <<"f-game-3">>, title |-> <<"Indie Gems">>, category |-> <<"Release">>,
      description |-> <<"The steam hit everyone is playing this week.">>, imageUrl |-> <<"Indie">>],
     [id |-> <<"f-game-4">>, title |-> <<"Console Refresh">>, category |-> <<"Hardware">>,
      description |-> <<"Rumors of a \"Pro\" console upgrade swirl.">>, imageUrl |-> <<"Console">>],
     [id |-> <<"f-game-5">>, title |-> <<"Speedrun Record">>, category |-> <<"Community">>,
      description |-> <<"Classic game beaten in under 5 minutes.">>, imageUrl |-> <<"Timer">>],
     [id |-> <<"f-game-6">>, title |-> <<"RPG Expansion">>, category |-> <<"DLC">>,
      description |-> <<"Massive update drops for popular RPG.">>, imageUrl |-> <<"Dragon">>]
  >>

Fallback_landscapes ==
  <<
     [id |-> <<"f-land-1">>, title |-> <<"Northern Lights">>, category |-> <<"Phenomenon">>,
      description |-> <<"Solar storms create spectacular views globally.">>, imageUrl |-> <<"Aurora">>],
     [id |-> <<"f-land-2">>, title |-> <<"Hidden Beaches">>, category |-> <<"Travel">>,
      description |-> <<"The secret summer destinations trending now.">>, imageUrl |-> <<"Beach">>],
     [id |-> <<"f-land-3">>, title |-> <<"Volcanic Eruption">>, category |-> <<"News">>,
      description |-> <<"Live streams of lava flows captivate millions.">>, imageUrl |-> <<"Volcano">>],
     [id |-> <<"f-land-4">>, title |-> <<"Autumn Foliage">>, category |-> <<"Season">>,
      description |-> <<"Best spots to see the leaves change color.">>, imageUrl |-> <<"Forest">>],
     [id |-> <<"f-land-5">>, title |-> <<"Desert Bloom">>, category |-> <<"Rare">>,
      description |-> <<"Rare rainfall creates flowers in the desert.">>, imageUrl |-> <<"Desert">>],
     [id |-> <<"f-land-6">>, title |-> <<"Mountain Pass">>, category |-> <<"Adventure">>,
      description |-> <<"Dangerous but beautiful road opens for season.">>, imageUrl |-> <<"Mountain">>]
  >>

Fallback_wildlife ==
  <<
     [id |-> <<"f-wild-1">>, title |-> <<"Viral Pygmy Hippo">>, category |-> <<"Zoo">>,
      description |-> <<"The internet falls in love with a new zoo icon.">>, imageUrl |-> <<"Hippo">>],
     [id |-> <<"f-wild-2">>, title |-> <<"Rare Bird Sighting">>, category |-> <<"Discovery">>,
      description |-> <<"Extinct bird possibly spotted in rainforest.">>, imageUrl |-> <<"Bird">>],
     [id |-> <<"f-wild-3">>, title |-> <<"Panda Return">>, category |-> <<"Conservation">>,
      description |-> <<"Pandas arriving at new sanctuary.">>, imageUrl |-> <<"Panda">>],
     [id |-> <<"f-wild-4">>, title |-> <<"Cat Distribution">>, category |-> <<"Viral">>,
      description |-> <<"How stray cats choose their owners.">>, imageUrl |-> <<"Cat">>],
     [id |-> <<"f-wild-5">>, title |-> <<"Whale Migration">>, category |-> <<"Ocean">>,
      description |-> <<"Massive pod sighted near coast.">>, imageUrl |-> <<"Whale">>],
     [id |-> <<"f-wild-6">>, title |-> <<"Dog Hero">>, category |-> <<"News">>,
      description |-> <<"Local dog saves family from fire.">>, imageUrl |-> <<"Dog">>]
  >>
FallbackData(cat) ==
  CASE cat = "news" -> Fallback_news
    [] cat = "tech" -> Fallback_tech
    [] cat = "music" -> Fallback_music
    [] cat = "billboard" -> Fallback_billboard
    [] cat = "hiphop" -> Fallback_hiphop
    [] cat = "memes" -> Fallback_memes
    [] cat = "gaming" -> Fallback_gaming
    [] cat = "landscapes" -> Fallback_landscapes
    [] cat = "wildlife" -> Fallback_wildlife

(***************************************************************************)
(* The line protocol: fetchTopicsByCategory, geminiService.ts 47-71        *)
(***************************************************************************)
TS == "TOPIC_START"

TE == "TOPIC_END"

PIPE == "|"

NL == "\n"

CR == "\r"

SP == " "

\* text.split('\n')
RECURSIVE SplitLines(_)
SplitLines(text) ==
  IF \A i \in 1..Len(text) : text[i] # NL
  THEN <<text>>
  ELSE LET k == CHOOSE i \in 1..Len(text) :
                  text[i] = NL /\ \A j \in 1..(i - 1) : text[j] # NL
       IN  <<SubSeq(text, 1, k - 1)>> \o SplitLines(SubSeq(text, k + 1, Len(text)))

\* The candidate matches of /TOPIC_START\|(.*?)\|(.*?)\|(.*?)\|TOPIC_END/ in a
\* line: <<i, a, b, c>> with TOPIC_START at i, the pipes that close the three
\* groups at a, b, c and TOPIC_END at c + 1.  The dot matches no line terminator.
MatchCandidates(line) ==
  LET n == Len(line)
      pipes == {p \in 1..n : line[p] = PIPE}
      starts == {i \in 1..n : line[i] = TS /\ (i + 1) \in pipes}
      ends == {c \in pipes : c + 1 <= n /\ line[c + 1] = TE}
  IN  {m \in starts \X pipes \X pipes \X ends :
         /\ m[1] + 1 < m[2]
         /\ m[2] < m[3]
         /\ m[3] < m[4]
         /\ \A j \in (m[1] + 2)..(m[4] - 1) : line[j] \notin {CR, NL}}

LexLeq(m1, m2) ==
  \/ m1[1] < m2[1]
  \/ m1[1] = m2[1] /\ m1[2] < m2[2]
  \/ m1[1] = m2[1] /\ m1[2] = m2[2] /\ m1[3] < m2[3]
  \/ m1[1] = m2[1] /\ m1[2] = m2[2] /\ m1[3] = m2[3] /\ m1[4] <= m2[4]

\* line.match(regex): null (the empty set here), or the groups of the leftmost
\* match, each lazy group as short as the rest of the pattern allows, earlier
\* groups first.
RegexMatch(line) ==
  LET cands == MatchCandidates(line)
  IN  IF cands = {} THEN {}
      ELSE LET m == CHOOSE x \in cands : \A y \in cands : LexLeq(x, y)
           IN  {[g1 |-> SubSeq(line, m[1] + 2, m[2] - 1),
                 g2 |-> SubSeq(line, m[2] + 1, m[3] - 1),
                 g3 |-> SubSeq(line, m[3] + 1, m[4] - 1)]}

\* String.prototype.trim
RECURSIVE Trim(_)
Trim(s) ==
  IF s = <<>> THEN s
  ELSE IF Head(s) = SP THEN Trim(Tail(s))
  ELSE IF s[Len(s)] = SP THEN Trim(SubSeq(s, 1, Len(s) - 1))
  ELSE s

\* s.replace(/\s/g, '')
StripWhitespace(s) == SelectSeq(s, LAMBDA ch : ch # SP)

\* The Topic pushed for match m of the line at 0-based position index.
TopicOfMatch(m, index, categoryPrefix, t) ==
  [id |-> <<categoryPrefix, index, t>>,
   title |-> Trim(m.g1),
   category |-> Trim(m.g2),
   description |-> Trim(m.g3),
   imageUrl |-> StripWhitespace(m.g1) \o <<categoryPrefix>>]

\* lines.forEach((line, index) => { if (match) topics.push(...) })
RECURSIVE CollectTopics(_, _, _, _)
CollectTopics(lines, index, categoryPrefix, t) ==
  IF index >= Len(lines) THEN <<>>
  ELSE LET found == RegexMatch(lines[index + 1])
       IN  (IF found = {} THEN <<>>
            ELSE <<TopicOfMatch(CHOOSE m \in found : TRUE, index, categoryPrefix, t)>>)
           \o CollectTopics(lines, index + 1, categoryPrefix, t)

\* As SliceTopics, with the slice left out.
SliceTopics_All(ts) == ts

\* topics.slice(0, 10)
SliceTopics(ts) == SubSeq(ts, 1, IF Len(ts) < MaxTopics THEN Len(ts) ELSE MaxTopics)

\* The success path of fetchTopicsByCategory: the parsed topics, or the
\* fallback when no line matched.
ParseTopics(text, cat, t) ==
  LET parsed == CollectTopics(SplitLines(text), 0, CategoryPrefix(cat), t)
  IN  IF Len(parsed) = 0 THEN FallbackData(cat) ELSE SliceTopics(parsed)

\* lines joined by line feeds: the text the service answered
RECURSIVE JoinLines(_)
JoinLines(ls) ==
  IF ls = <<>> THEN <<>>
  ELSE IF Len(ls) = 1 THEN ls[1]
  ELSE ls[1] \o <<NL>> \o JoinLines(Tail(ls))

(***************************************************************************)
(* The external service: what one generateContent call can answer          *)
(***************************************************************************)
GoodText ==
  <<TS, PIPE, "a", PIPE, "b", PIPE, "c", PIPE, TE, NL,
    "junk", NL,
    TS, PIPE, SP, "b", SP, PIPE, "b", PIPE, "c", PIPE, TE>>

NoMatchText == <<"sorry", NL, TS, PIPE, "a", PIPE, TE>>

ResponseTexts == {GoodText, NoMatchText}

\* The error objects the call rejects with: status and code, 0 for undefined.
ErrorShapes ==
  {[status |-> 429, code |-> 0], [status |-> 0, code |-> 429],
   [status |-> 503, code |-> 0], [status |-> 500, code |-> 0],
   [status |-> 0, code |-> 0]}

Outcomes ==
  {[kind |-> "ok", text |-> t, status |-> 0, code |-> 0] : t \in ResponseTexts}
  \cup {[kind |-> "error", text |-> <<>>, status |-> e.status, code |-> e.code] :
          e \in ErrorShapes}

\* What the service sent, as the environment sees it: usable text, a
\* rate-limit / unavailable signal (HTTP 429 or 503), or another error.
AnswerClass(o) ==
  IF o.kind = "ok" THEN "ok"
  ELSE IF o.status \in {429, 503} \/ o.code = 429 THEN "signal"
  ELSE "other"

IsFault(o) == o.kind = "error" \/ o.text # GoodText

IsSignal(o) == AnswerClass(o) = "signal"

(***************************************************************************)
(* generateContentWithRetry and fetchTopicsByCategory, one call record per *)
(* category fetch                                                          *)
(***************************************************************************)
IdleCall ==
  [st |-> "idle", retries |-> DefaultRetries, due |-> 0, attempts |-> 0,
   waits |-> <<>>, log |-> <<>>, result |-> <<>>]

\* ai.models.generateContent(...) is entered: one external call in flight
IssueCall(call) ==
  [call EXCEPT !.st = "inflight", !.attempts = @ + 1]

\* As IsRetryable, retrying after any error.
IsRetryable_Any(o) == TRUE

\* error.status === 429 || error.code === 429 || error.status === 503
IsRetryable(o) == o.status = 429 \/ o.code = 429 \/ o.status = 503

\* As WaitTime, without the escalation: 2 s before every retry.
WaitTime_Flat(retries) == BackoffUnitMs

\* 2000 * (4 - retries)
WaitTime(retries) == BackoffUnitMs * (BackoffSteps - retries)

\* generateContentWithRetry when its external call settles with outcome o at
\* time t: the response is returned, or the catch block waits and retries,
\* or it rethrows.
GenerateContentWithRetry(call, o, t) ==
  LET logged == [call EXCEPT !.log = Append(@, AnswerClass(o))]
  IN  IF o.kind = "ok"
      THEN [logged EXCEPT !.st = "resolved"]
      ELSE IF call.retries > 0 /\ IsRetryable(o)
      THEN [logged EXCEPT !.st = "backoff",
                          !.due = t + WaitTime(call.retries),
                          !.waits = Append(@, WaitTime(call.retries))]
      ELSE [logged EXCEPT !.st = "rejected"]

\* As Respond, with a catch block that returns no topics instead of the
\* fallback.
Respond_NoFallback(call, o, cat, t) ==
  LET g == GenerateContentWithRetry(call, o, t)
  IN  IF g.st = "resolved"
      THEN [g EXCEPT !.st = "settled", !.result = ParseTopics(o.text, cat, t)]
      ELSE IF g.st = "rejected"
      THEN [g EXCEPT !.st = "settled", !.result = <<>>]
      ELSE g

\* fetchTopicsByCategory around it: parse the response text, or catch the
\* error and return the fallback.
Respond(call, o, cat, t) ==
  LET g == GenerateContentWithRetry(call, o, t)
  IN  IF g.st = "resolved"
      THEN [g EXCEPT !.st = "settled", !.result = ParseTopics(o.text, cat, t)]
      ELSE IF g.st = "rejected"
      THEN [g EXCEPT !.st = "settled", !.result = FallbackData(cat)]
      ELSE g

\* delay(waitTime) is over: generateContentWithRetry(model, params, retries - 1)
Retry(call) ==
  IssueCall([call EXCEPT !.retries = @ - 1])

(***************************************************************************)
(* fetchTopicDetails and fetchChatResponse                                 *)
(***************************************************************************)
\* response.text || "No details available."
NoDetails == "No details available."

\* The markdown of the catch block of fetchTopicDetails.
DetailsError == "## Error\nUnable to fetch details at this time. Please try again later."

\* response.text || "I couldn't find anything on that right now."
NothingFound == "I couldn't find anything on that right now."

\* The text of the catch block of fetchChatResponse.
ChatError == "Sorry, I'm having trouble connecting to the network right now."

\* chunk.web.title || "Web Source"
WebSource == "Web Source"

MaxLinks == 6

\* a || b for strings
OrElse(a, b) == IF a = "" THEN b ELSE a

\* chunks.forEach(chunk => { if (chunk.web) sourceLinks.push({ title:
\*   chunk.web.title || "Web Source", uri: chunk.web.uri }) })
RECURSIVE CollectLinks(_)
CollectLinks(chunks) ==
  IF chunks = <<>> THEN <<>>
  ELSE (IF Head(chunks).web
        THEN <<[title |-> OrElse(Head(chunks).title, WebSource), uri |-> Head(chunks).uri]>>
        ELSE <<>>) \o CollectLinks(Tail(chunks))

\* As SliceLinks, with the slice left out.
SliceLinks_All(links) == links

\* sourceLinks.slice(0, 6)
SliceLinks(links) == SubSeq(links, 1, IF Len(links) < MaxLinks THEN Len(links) ELSE MaxLinks)

\* The success path of fetchTopicDetails on a response; a response without
\* candidates or grounding metadata has no chunks.
DetailsOf(o) ==
  [markdown |-> OrElse(o.text, NoDetails),
   sourceLinks |-> SliceLinks(IF o.hasChunks THEN CollectLinks(o.chunks) ELSE <<>>)]

\* fetchTopicDetails when the external call settles with outcome o: the
\* details, or the placeholder of the catch block, or a retry under way.
FetchTopicDetails(call, o, t) ==
  LET g == GenerateContentWithRetry(call, o, t)
  IN  IF g.st = "resolved"
      THEN [g EXCEPT !.st = "settled", !.result = DetailsOf(o)]
      ELSE IF g.st = "rejected"
      THEN [g EXCEPT !.st = "settled",
                     !.result = [markdown |-> DetailsError, sourceLinks |-> <<>>]]
      ELSE g

\* As FetchChatResponse, with the error thrown on.
FetchChatResponse_Rethrow(call, o, t) ==
  LET g == GenerateContentWithRetry(call, o, t)
  IN  IF g.st = "resolved"
      THEN [g EXCEPT !.st = "settled", !.result = OrElse(o.text, NothingFound)]
      ELSE g

\* fetchChatResponse when the external call settles with outcome o.
FetchChatResponse(call, o, t) ==
  LET g == GenerateContentWithRetry(call, o, t)
  IN  IF g.st = "resolved"
      THEN [g EXCEPT !.st = "settled", !.result = OrElse(o.text, NothingFound)]
      ELSE IF g.st = "rejected"
      THEN [g EXCEPT !.st = "settled", !.result = ChatError]
      ELSE g

(***************************************************************************)
(* loadTopics                                                              *)
(***************************************************************************)
EmptyTopics == [c \in Sections |-> <<>>]

Absent == [kind |-> "absent", hasTimestamp |-> FALSE, timestamp |-> 0,
           hasData |-> FALSE, data |-> <<>>]

Malformed == [kind |-> "malformed", hasTimestamp |-> FALSE, timestamp |-> 0,
              hasData |-> FALSE, data |-> <<>>]

\* JSON.stringify(cacheData), cacheData = {timestamp, data: {news, ..., wildlife}}
Snapshot(ts, data) ==
  [kind |-> "json", hasTimestamp |-> TRUE, timestamp |-> ts,
   hasData |-> TRUE, data |-> data]

\* As CacheFresh, without the test that the data is there.
CacheFresh_Unchecked(st, t) ==
  /\ st.kind = "json"
  /\ st.hasTimestamp
  /\ t - st.timestamp < REFRESH_INTERVAL

\* As CacheFresh, with the age compared by <= : a snapshot of exactly 8 hours
\* would still be served.
CacheFresh_Inclusive(st, t) ==
  /\ st.kind = "json"
  /\ st.hasTimestamp
  /\ t - st.timestamp <= REFRESH_INTERVAL
  /\ st.hasData

\* The cache branch of loadTopics returns early: the item is there, parses,
\* age < REFRESH_INTERVAL (false for a missing timestamp: NaN) and reading
\* parsed.data.news does not throw.
CacheFresh(st, t) ==
  /\ st.kind = "json"
  /\ st.hasTimestamp
  /\ t - st.timestamp < REFRESH_INTERVAL
  /\ st.hasData

\* As ServeFromCache, with the forceRefresh test left out.
ServeFromCache_IgnoreForce(forceRefresh, st, t) == CacheFresh(st, t)

\* if (!forceRefresh) { ... if (age < REFRESH_INTERVAL) { ...; return; } }
ServeFromCache(forceRefresh, st, t) == ~forceRefresh /\ CacheFresh(st, t)

\* As CachedTopics, restoring the news list only.
CachedTopics_NewsOnly(st) ==
  [c \in Sections |-> IF c = "news" /\ c \in DOMAIN st.data THEN st.data[c] ELSE <<>>]

\* parsed.data.<section> || []
CachedTopics(st) ==
  [c \in Sections |-> IF c \in DOMAIN st.data THEN st.data[c] ELSE <<>>]

IssueBatch(calls, k) ==
  [c \in Sections |-> IF c \in BatchMembers(k) THEN IssueCall(calls[c]) ELSE calls[c]]

\* As BatchSettled, waiting for the requests of every group.
BatchSettled_AllGroups(calls, k) == \A c \in Sections : calls[c].st = "settled"

BatchSettled(calls, k) == \A c \in BatchMembers(k) : calls[c].st = "settled"

\* setNewsTopics(news); setTechTopics(tech); ... for the batch that completed
TopicsAfterBatch(tp, calls, k) ==
  [c \in Sections |-> IF c \in BatchMembers(k) THEN calls[c].result ELSE tp[c]]

\* As Results, taking the topic sets on display instead of the values the
\* cycle holds.
Results_FromState(calls) == topics

\* data: { news, tech, music, billboard, hiphop, memes, gaming, landscapes,
\* wildlife }: the values this invocation received
Results(calls) == [c \in Sections |-> calls[c].result]

\* As PauseDeadline, without the pause.
PauseDeadline_None(t) == t

\* wait(1500)
PauseDeadline(t) == t + BatchPauseMs

\* The interval effect depends on lastUpdated: a new value clears the interval
\* and starts a new one.
RearmTick(newLastUpdated) ==
  IF newLastUpdated # lastUpdated THEN now + TickIntervalMs ELSE nextTick

\* The number of fetch cycles started so far.
Cycles == Cardinality({i \in 1..Len(loads) : loads[i].pc # "cached"})

\* One invocation of loadTopics(forceRefresh) up to its first await; refr is
\* the refreshing flag the caller left.
LoadTopics(forceRefresh, refr) ==
  /\ ~ServeFromCache(forceRefresh, storage, now) => Cycles < limits.cycles
  /\ IF ServeFromCache(forceRefresh, storage, now)
     THEN /\ topics' = CachedTopics(storage)
          /\ lastUpdated' = storage.timestamp
          /\ loading' = FALSE
          /\ refreshing' = FALSE
          /\ error' = Null
          /\ loads' = Append(loads,
               [force |-> forceRefresh, startedAt |-> now, pc |-> "cached",
                batch |-> 0, calls |-> [c \in Sections |-> IdleCall],
                pauseUntil |-> 0, issuedAt |-> <<>>, settledAt |-> <<>>])
     ELSE /\ loading' = (IF forceRefresh THEN loading ELSE TRUE)
          /\ refreshing' = refr
          /\ error' = Null
          /\ loads' = Append(loads,
               [force |-> forceRefresh, startedAt |-> now, pc |-> "batch",
                batch |-> 1,
                calls |-> IssueBatch([c \in Sections |-> IdleCall], 1),
                pauseUntil |-> 0, issuedAt |-> <<now>>, settledAt |-> <<>>])
          /\ UNCHANGED <<topics, lastUpdated>>
  /\ UNCHANGED <<now, storage>>

\* As SetItem, with the time stamp of the item it replaces.
SetItem_OldTimestamp(writeOk, st, ts, data) ==
  IF writeOk THEN Snapshot(st.timestamp, data) ELSE st

\* localStorage.setItem(STORAGE_KEY, JSON.stringify(cacheData)): the item is
\* replaced, or the call throws and the item stays.
SetItem(writeOk, st, ts, data) == IF writeOk THEN Snapshot(ts, data) ELSE st

\* catch (e) { setError("Failed to load ...") }
CatchError(thrown, err) == IF thrown THEN ErrorMessage ELSE err

\* The continuation of loadTopics after Promise.all of batch k resolved, for
\* invocation i whose call records are now calls2.
BatchDone(i, calls2) ==
  LET ld == loads[i]
      k == ld.batch
      shown == TopicsAfterBatch(topics, calls2, k)
  IN  IF k < Len(Batches)
      THEN /\ topics' = shown
           /\ loads' = [loads EXCEPT ![i] =
                 [ld EXCEPT !.calls = calls2, !.pc = "pause",
                            !.pauseUntil = PauseDeadline(now),
                            !.settledAt = Append(@, now)]]
           /\ UNCHANGED <<storage, loading, refreshing, error, lastUpdated>>
      ELSE \E writeOk \in BOOLEAN :
           /\ topics' = shown
           /\ lastUpdated' = now
           /\ storage' = SetItem(writeOk, storage, now, Results(calls2))
           /\ error' = CatchError(~writeOk, error)
           /\ loading' = FALSE
           /\ refreshing' = FALSE
           /\ loads' = [loads EXCEPT ![i] =
                 [ld EXCEPT !.calls = calls2,
                            !.pc = (IF writeOk THEN "done" ELSE "failed"),
                            !.settledAt = Append(@, now)]]

\* A category fetch of invocation i makes progress to call record call2.
CallProgress(i, cat, call2) ==
  LET calls2 == [loads[i].calls EXCEPT ![cat] = call2]
  IN  IF BatchSettled(calls2, loads[i].batch)
      THEN BatchDone(i, calls2)
      ELSE /\ loads' = [loads EXCEPT ![i].calls = calls2]
           /\ UNCHANGED <<storage, topics, loading, refreshing, error, lastUpdated>>

(***************************************************************************)
(* The App: mount effects, interval callback, buttons, timers              *)
(***************************************************************************)
\* As Truthy, taking the unset value for a time.
Truthy_Always(t) == TRUE

\* if (lastUpdated)
Truthy(t) == t # NoTime /\ t # 0

\* useEffect(() => { loadTopics(); }, [loadTopics]) and the first run of the
\* interval effect
Mount ==
  /\ ~mounted
  /\ mounted' = TRUE
  /\ LoadTopics(FALSE, refreshing)
  /\ nextTick' = now + TickIntervalMs
  /\ UNCHANGED <<ticks, faults, limits>>

\* As TickStale, holding back while a fetch cycle is under way.
TickStale_IfIdle(lu, t) ==
  /\ Truthy(lu)
  /\ t - lu >= REFRESH_INTERVAL
  /\ \A i \in 1..Len(loads) : loads[i].pc \in {"cached", "done", "failed"}

\* As TickStale, with the age compared by > .
TickStale_Strict(lu, t) == Truthy(lu) /\ t - lu > REFRESH_INTERVAL

\* if (lastUpdated) { const age = Date.now() - lastUpdated;
\*                     if (age >= REFRESH_INTERVAL) ... }
TickStale(lu, t) == Truthy(lu) /\ t - lu >= REFRESH_INTERVAL

\* The setInterval callback of the auto-refresh effect.
Tick ==
  /\ mounted
  /\ now = nextTick
  /\ ticks < limits.ticks
  /\ ticks' = ticks + 1
  /\ nextTick' = nextTick + TickIntervalMs
  /\ IF TickStale(lastUpdated, now)
     THEN LoadTopics(TRUE, refreshing)
     ELSE UNCHANGED <<now, storage, topics, loading, refreshing, error,
                      lastUpdated, loads>>
  /\ UNCHANGED <<mounted, faults, limits>>

\* As HandleRefresh, with the button also disabled while a cycle is under way.
HandleRefresh_IfIdle ==
  /\ mounted
  /\ ~loading
  /\ ~refreshing
  /\ \A i \in 1..Len(loads) : loads[i].pc \in {"cached", "done", "failed"}
  /\ LoadTopics(TRUE, TRUE)
  /\ UNCHANGED <<nextTick, mounted, ticks, faults, limits>>

\* The Refresh button (disabled={loading || refreshing}) -> handleRefresh
HandleRefresh ==
  /\ mounted
  /\ ~loading
  /\ ~refreshing
  /\ LoadTopics(TRUE, TRUE)
  /\ UNCHANGED <<nextTick, mounted, ticks, faults, limits>>

\* The Try Again button of the error banner -> loadTopics(true)
TryAgain ==
  /\ mounted
  /\ error # Null
  /\ LoadTopics(TRUE, refreshing)
  /\ UNCHANGED <<nextTick, mounted, ticks, faults, limits>>

\* An external call of invocation i, category cat, settles with outcome o.
CallSettles(i, cat, o) ==
  /\ loads[i].pc = "batch"
  /\ loads[i].calls[cat].st = "inflight"
  /\ o.kind = "ok" => o.text \in limits.texts
  /\ IsFault(o) => faults.all < limits.faults
  /\ IsSignal(o) => faults.signals < limits.signals
  /\ faults' = [all |-> faults.all + (IF IsFault(o) THEN 1 ELSE 0),
                signals |-> faults.signals + (IF IsSignal(o) THEN 1 ELSE 0),
                slow |-> faults.slow]
  /\ \E call2 \in {Respond(loads[i].calls[cat], o, cat, now)} :
       CallProgress(i, cat, call2)
  /\ nextTick' = RearmTick(lastUpdated')
  /\ UNCHANGED <<now, mounted, ticks, limits>>

\* The backoff timer of a category fetch fires.
BackoffDone(i, cat) ==
  /\ loads[i].pc = "batch"
  /\ loads[i].calls[cat].st = "backoff"
  /\ loads[i].calls[cat].due = now
  /\ CallProgress(i, cat, Retry(loads[i].calls[cat]))
  /\ UNCHANGED <<now, nextTick, mounted, ticks, faults, limits>>

\* The wait(1500) timer of invocation i fires: the next batch is issued.
PauseDone(i) ==
  /\ loads[i].pc = "pause"
  /\ loads[i].pauseUntil = now
  /\ loads' = [loads EXCEPT ![i] =
        [@ EXCEPT !.pc = "batch", !.batch = @ + 1,
                  !.calls = IssueBatch(@, loads[i].batch + 1),
                  !.issuedAt = Append(@, now)]]
  /\ UNCHANGED <<now, storage, topics, loading, refreshing, error, lastUpdated,
                 nextTick, mounted, ticks, faults, limits>>

Deadlines ==
  (IF mounted /\ ticks < limits.ticks THEN {nextTick} ELSE {})
  \cup {loads[i].pauseUntil : i \in {j \in 1..Len(loads) : loads[j].pc = "pause"}}
  \cup UNION {{loads[i].calls[c].due :
                 c \in {d \in Sections : loads[i].calls[d].st = "backoff"}} :
              i \in {j \in 1..Len(loads) : loads[j].pc = "batch"}}

InFlight ==
  \E i \in 1..Len(loads) : \E c \in Sections : loads[i].calls[c].st = "inflight"

\* No timer is due: time passes until the next one is.  The exploration ends
\* before an interval callback it has no budget for.
AdvanceTime ==
  /\ Deadlines # {}
  /\ \A d \in Deadlines : d > now
  /\ now' = CHOOSE d \in Deadlines : \A e \in Deadlines : d <= e
  /\ mounted => now' <= nextTick
  /\ InFlight => faults.slow < limits.slow
  /\ faults' = [faults EXCEPT !.slow = @ + (IF InFlight THEN 1 ELSE 0)]
  /\ UNCHANGED <<storage, topics, loading, refreshing, error, lastUpdated, loads,
                 nextTick, mounted, ticks, limits>>

\* The page is loaded again dt ms later: the component state starts over from
\* its useState initial values, pending requests and timers of the page that
\* was left are gone, localStorage stays.  What the page left behind is kept
\* in session.
Reload(dt) ==
  /\ mounted
  /\ session.reloads < MaxReloads
  /\ session' =
       [reloads |-> session.reloads + 1,
        settled |-> loads # <<>> /\ loads[Len(loads)].pc = "done",
        persisted |-> IF loads # <<>> /\ loads[Len(loads)].pc = "done"
                      THEN Results(loads[Len(loads)].calls) ELSE EmptyTopics,
        stamp |-> lastUpdated]
  /\ now' = now + dt
  /\ topics' = EmptyTopics
  /\ loading' = TRUE
  /\ refreshing' = FALSE
  /\ error' = Null
  /\ lastUpdated' = NoTime
  /\ loads' = <<>>
  /\ nextTick' = 0
  /\ mounted' = FALSE
  /\ ticks' = 0
  /\ UNCHANGED <<storage, faults, limits>>

(***************************************************************************)
(* Saved topics and section preferences: their localStorage items, the     *)
(* useState initialisers, the toggles and the persistence effects          *)
(***************************************************************************)
\* localStorage.getItem(key): null, the empty string, a text that is no JSON,
\* or the text JSON.stringify made of a value.
NoItem == [kind |-> "absent", value |-> <<>>]

EmptyItem == [kind |-> "empty", value |-> <<>>]

BadItem == [kind |-> "malformed", value |-> <<>>]

JsonStringify(v) == [kind |-> "json", value |-> v]

\* saved ? ... : ...
ItemTruthy(item) == item.kind \in {"malformed", "json"}

\* JSON.parse(text): the value, or a SyntaxError
JsonParse(item) ==
  IF item.kind = "json"
  THEN [threw |-> FALSE, value |-> item.value]
  ELSE [threw |-> TRUE, value |-> <<>>]

\* useState<Topic[]>(() => { const saved = localStorage.getItem(SAVED_STORAGE_KEY);
\*                           return saved ? JSON.parse(saved) : []; })
InitialSavedTopics(item) ==
  IF ItemTruthy(item) THEN JsonParse(item) ELSE [threw |-> FALSE, value |-> <<>>]

\* SECTIONS_CONFIG.reduce((acc, curr) => ({ ...acc, [curr.id]: true }), {})
Defaults == [c \in Sections |-> TRUE]

\* { ...a, ...b }
Spread(a, b) ==
  [k \in DOMAIN a \cup DOMAIN b |-> IF k \in DOMAIN b THEN b[k] ELSE a[k]]

\* The initialiser of visibleSections: the stored map over the defaults, the
\* defaults when there is no item or JSON.parse throws (caught).
InitialVisibleSections(item) ==
  IF ItemTruthy(item) /\ ~JsonParse(item).threw
  THEN Spread(Defaults, JsonParse(item).value)
  ELSE Defaults

\* The first render of App: the initialisers run in the order of the useState
\* calls; an exception in one ends the render.
AppRender ==
  /\ appPhase = "start"
  /\ IF InitialSavedTopics(savedItem).threw
     THEN /\ appPhase' = "crashed"
          /\ UNCHANGED <<savedTopics, visibleSections, effects>>
     ELSE /\ appPhase' = "ready"
          /\ savedTopics' = InitialSavedTopics(savedItem).value
          /\ visibleSections' = InitialVisibleSections(prefsItem)
          /\ effects' = {"prefs", "saved"}
  /\ UNCHANGED <<savedItem, prefsItem, toggled>>

\* As Exists, with the topics compared by id.
Exists_ById(prev, topic) == \E k \in 1..Len(prev) : prev[k].id = topic.id

\* prev.some(t => t.title === topic.title)
Exists(prev, topic) == \E k \in 1..Len(prev) : prev[k].title = topic.title

\* prev.filter(t => t.title !== topic.title)
Filter(prev, topic) == SelectSeq(prev, LAMBDA t : t.title # topic.title)

\* As ToggleSaveTopic, never removing.
ToggleSaveTopic_AlwaysAdd(prev, topic) == <<topic>> \o prev

\* As ToggleSaveTopic, adding at the end.
ToggleSaveTopic_Append(prev, topic) ==
  IF Exists(prev, topic) THEN Filter(prev, topic) ELSE prev \o <<topic>>

\* The updater of toggleSaveTopic.
ToggleSaveTopic(prev, topic) ==
  IF Exists(prev, topic) THEN Filter(prev, topic) ELSE <<topic>> \o prev

\* !prev[id], undefined being falsy
Negate(prev, id) == IF id \in DOMAIN prev THEN ~prev[id] ELSE TRUE

\* As ToggleSection, with the other sections switched on.
ToggleSection_Reset(prev, id) ==
  [k \in DOMAIN prev \cup {id} |-> IF k = id THEN Negate(prev, id) ELSE TRUE]

\* The updater of toggleSection: { ...prev, [id]: !prev[id] }
ToggleSection(prev, id) ==
  [k \in DOMAIN prev \cup {id} |-> IF k = id THEN Negate(prev, id) ELSE prev[k]]

Toggles == Len(toggled)

Found(op, key, arg) ==
  [op |-> op, key |-> key, arg |-> arg, saved |-> savedTopics,
   sections |-> visibleSections]

\* A click on the bookmark of a topic.
ToggleSave(topic) ==
  /\ appPhase = "ready"
  /\ effects = {}
  /\ Toggles < MaxToggles
  /\ savedTopics' = ToggleSaveTopic(savedTopics, topic)
  /\ effects' = {"saved"}
  /\ toggled' = Append(toggled, Found("save", topic.title, topic))
  /\ UNCHANGED <<savedItem, prefsItem, visibleSections, appPhase>>

\* A click on a section switch of the settings panel.
ToggleVisible(id) ==
  /\ appPhase = "ready"
  /\ effects = {}
  /\ Toggles < MaxToggles
  /\ visibleSections' = ToggleSection(visibleSections, id)
  /\ effects' = {"prefs"}
  /\ toggled' = Append(toggled, Found("section", id, id))
  /\ UNCHANGED <<savedItem, prefsItem, savedTopics, appPhase>>

\* useEffect(() => { localStorage.setItem(PREFS_KEY,
\*   JSON.stringify(visibleSections)); }, [visibleSections]); setItem may throw
\* (quota), and an exception in an effect takes the App down.
PersistPrefs(writeOk) ==
  /\ "prefs" \in effects
  /\ effects' = effects \ {"prefs"}
  /\ prefsItem' = IF writeOk THEN JsonStringify(visibleSections) ELSE prefsItem
  /\ appPhase' = IF writeOk THEN appPhase ELSE "crashed"
  /\ UNCHANGED <<savedItem, savedTopics, visibleSections, toggled>>

\* useEffect(() => { localStorage.setItem(SAVED_STORAGE_KEY,
\*   JSON.stringify(savedTopics)); }, [savedTopics]); it runs after the
\* preferences effect of the same render, also when that one threw.
PersistSaved(writeOk) ==
  /\ effects = {"saved"}
  /\ effects' = {}
  /\ savedItem' = IF writeOk THEN JsonStringify(savedTopics) ELSE savedItem
  /\ appPhase' = IF writeOk THEN appPhase ELSE "crashed"
  /\ UNCHANGED <<prefsItem, savedTopics, visibleSections, toggled>>

(***************************************************************************)
(* The detail view: handleTopicClick, handleBack and its timer, and the    *)
(* effect of DetailView                                                    *)
(***************************************************************************)
BackDelayMs == 300

\* if (view === ViewState.DETAIL && selectedTopic) return <DetailView .../>
DetailRendered == view = "DETAIL" /\ selectedTopic # <<>>

\* DetailView mounts for topic: useState(null), useState(true), and the effect
\* runs: mounted = true, loadDetails() calls fetchTopicDetails(topic.title).
LoadDetails(topic) ==
  [topic |-> topic, mounted |-> TRUE, st |-> "pending", info |-> <<>>,
   loading |-> TRUE, order |-> 0]

\* The cleanup of the effect: mounted = false
Cleanup(inst) == [inst EXCEPT !.mounted = FALSE]

\* The instance on screen, if any, is unmounted.
Unmount(ds) == [r \in DOMAIN ds |-> Cleanup(ds[r])]

\* As Deliver, without the test of the mounted flag.
Deliver_Unguarded(inst, data, k) ==
  [inst EXCEPT !.st = "settled", !.order = k,
               !.info = <<[asked |-> inst.topic.title, data |-> data]>>,
               !.loading = FALSE]

\* const data = await ...; if (mounted) { setInfo(data); setLoading(false); }
Deliver(inst, data, k) ==
  IF inst.mounted
  THEN [inst EXCEPT !.st = "settled", !.order = k,
                    !.info = <<[asked |-> inst.topic.title, data |-> data]>>,
                    !.loading = FALSE]
  ELSE [inst EXCEPT !.st = "settled", !.order = k]

\* handleTopicClick, from a TopicCard of the grid; the DetailView it brings up
\* mounts and its effect runs.
HandleTopicClick(topic) ==
  /\ ~DetailRendered
  /\ Len(details) < MaxClicks
  /\ selectedTopic' = <<topic>>
  /\ view' = "DETAIL"
  /\ details' = Append(details, LoadDetails(topic))
  /\ UNCHANGED <<now, timers>>

\* handleBack, from the Back button of the DetailView: the grid is rendered,
\* the DetailView unmounts, the clearing of selectedTopic is scheduled.
HandleBack ==
  /\ DetailRendered
  /\ view' = "GRID"
  /\ timers' = Append(timers, now + BackDelayMs)
  /\ details' = Unmount(details)
  /\ UNCHANGED <<now, selectedTopic>>

\* setTimeout(() => setSelectedTopic(null), 300) fires; a DetailView on
\* screen unmounts, as its render condition no longer holds.
ClearSelectedTopic ==
  /\ timers # <<>>
  /\ Head(timers) = now
  /\ selectedTopic' = <<>>
  /\ timers' = Tail(timers)
  /\ details' = Unmount(details)
  /\ UNCHANGED <<now, view>>

SettledSoFar == Cardinality({r \in DOMAIN details : details[r].st = "settled"})

\* The request of instance r returns: fetchTopicDetails resolves with the
\* details or with its placeholder.
DetailsSettle(r, o) ==
  /\ details[r].st = "pending"
  /\ \E g \in {FetchTopicDetails(IssueCall(IdleCall), o, now)} :
       /\ g.st = "settled"
       /\ details' = [details EXCEPT ![r] = Deliver(@, g.result, SettledSoFar + 1)]
  /\ UNCHANGED <<now, view, selectedTopic, timers>>

\* Time passes until the next timer of handleBack is due.
ViewAdvance ==
  /\ timers # <<>>
  /\ Head(timers) > now
  /\ now' = Head(timers)
  /\ UNCHANGED <<view, selectedTopic, timers, details>>

(***************************************************************************)
(* Initial states                                                          *)
(***************************************************************************)
StartTime == 2 * REFRESH_INTERVAL

\* Ages of the snapshot found at start, around the threshold and around the
\* threshold as the first interval callback will see it.
InitAges ==
  {0 - 1000, 1000,
   REFRESH_INTERVAL - TickIntervalMs - 1, REFRESH_INTERVAL - TickIntervalMs,
   REFRESH_INTERVAL - 1, REFRESH_INTERVAL, REFRESH_INTERVAL + 1,
   9 * 60 * 60 * 1000}

\* What an earlier cycle that completed at time ts stored: parsed topics for
\* some sections, fallback for others.
OldData(ts) ==
  [c \in Sections |->
     IF c \in {"tech", "wildlife"} THEN FallbackData(c) ELSE ParseTopics(GoodText, c, ts)]

InitStorages ==
  {Absent, Malformed}
  \cup {Snapshot(StartTime - a, OldData(StartTime - a)) : a \in InitAges}
  \cup {[Snapshot(StartTime - 1000, OldData(StartTime - 1000)) EXCEPT !.hasData = FALSE,
                                                                      !.data = <<>>],
        [Snapshot(StartTime - 1000, OldData(StartTime - 1000)) EXCEPT !.hasTimestamp = FALSE],
        Snapshot(StartTime - 1000, [c \in {"news", "music"} |-> OldData(StartTime - 1000)[c]])}

AppInit(st, lim) ==
  /\ now = StartTime
  /\ storage = st
  /\ topics = EmptyTopics
  /\ loading = TRUE
  /\ refreshing = FALSE
  /\ error = Null
  /\ lastUpdated = NoTime
  /\ loads = <<>>
  /\ nextTick = 0
  /\ mounted = FALSE
  /\ ticks = 0
  /\ faults = [all |-> 0, signals |-> 0, slow |-> 0]
  /\ limits = lim

ParseIdle ==
  /\ plines = <<>>
  /\ pstage = "idle"
  /\ pcat = "news"
  /\ pout = <<>>

FetchIdle ==
  fetch = [stage |-> "idle", cat |-> "news", startedAt |-> 0, call |-> IdleCall]

AskIdle ==
  ask = [op |-> "none", stage |-> "idle", startedAt |-> 0, call |-> IdleCall,
         answer |-> <<>>]

SessionIdle ==
  session = [reloads |-> 0, settled |-> FALSE, persisted |-> EmptyTopics,
             stamp |-> NoTime]

\* useState<ViewState>(ViewState.GRID), useState<Topic | null>(null); no
\* DetailView is rendered.
ViewIdle ==
  /\ view = "GRID"
  /\ selectedTopic = <<>>
  /\ timers = <<>>
  /\ details = <<>>

LibIdle ==
  /\ savedItem = NoItem
  /\ prefsItem = NoItem
  /\ savedTopics = <<>>
  /\ visibleSections = <<>>
  /\ appPhase = "start"
  /\ effects = {}
  /\ toggled = <<>>

\* The App with a service that answers every call with usable text: cache
\* policy, interval callback, buttons, overlapping cycles, storage that may
\* refuse the write.
AppStorages ==
  {Absent}
  \cup {Snapshot(StartTime - a, OldData(StartTime - a)) :
          a \in {1000, REFRESH_INTERVAL - TickIntervalMs - 1,
                 REFRESH_INTERVAL - TickIntervalMs}}

Init ==
  /\ \E st \in AppStorages :
       AppInit(st, [cycles |-> MaxCycles, ticks |-> MaxTicks, faults |-> 0,
                    signals |-> 0, texts |-> {GoodText}, slow |-> MaxSlow])
  /\ ParseIdle
  /\ FetchIdle
  /\ AskIdle
  /\ SessionIdle
  /\ ViewIdle
  /\ LibIdle

Next ==
  \/ Mount /\ UNCHANGED <<parseVars, fetchVars, libVars, askVars, sessionVars, viewVars>>
  \/ Tick /\ UNCHANGED <<parseVars, fetchVars, libVars, askVars, sessionVars, viewVars>>
  \/ HandleRefresh /\ UNCHANGED <<parseVars, fetchVars, libVars, askVars, sessionVars, viewVars>>
  \/ TryAgain /\ UNCHANGED <<parseVars, fetchVars, libVars, askVars, sessionVars, viewVars>>
  \/ \E i \in 1..Len(loads), cat \in Sections, o \in Outcomes :
       CallSettles(i, cat, o) /\ UNCHANGED <<parseVars, fetchVars, libVars, askVars, sessionVars, viewVars>>
  \/ \E i \in 1..Len(loads) : PauseDone(i) /\ UNCHANGED <<parseVars, fetchVars, libVars, askVars, sessionVars, viewVars>>
  \/ AdvanceTime /\ UNCHANGED <<parseVars, fetchVars, libVars, askVars, sessionVars, viewVars>>

Spec == Init /\ [][Next]_vars

\* One fetch cycle on its own, started by the mount effect with nothing cached:
\* any category may fail, one category may use up its retries.
InitFetch ==
  /\ AppInit(Absent, [cycles |-> 1, ticks |-> 0, faults |-> MaxFetchFaults,
                      signals |-> MaxFetchSignals, texts |-> {GoodText},
                      slow |-> 0])
  /\ ParseIdle
  /\ FetchIdle
  /\ AskIdle
  /\ SessionIdle
  /\ ViewIdle
  /\ LibIdle

NextFetch ==
  \/ Mount /\ UNCHANGED <<parseVars, fetchVars, libVars, askVars, sessionVars, viewVars>>
  \/ \E i \in 1..Len(loads), cat \in Sections, o \in Outcomes :
       CallSettles(i, cat, o) /\ UNCHANGED <<parseVars, fetchVars, libVars, askVars, sessionVars, viewVars>>
  \/ \E i \in 1..Len(loads), cat \in Sections :
       BackoffDone(i, cat) /\ UNCHANGED <<parseVars, fetchVars, libVars, askVars, sessionVars, viewVars>>
  \/ \E i \in 1..Len(loads) : PauseDone(i) /\ UNCHANGED <<parseVars, fetchVars, libVars, askVars, sessionVars, viewVars>>
  \/ AdvanceTime /\ UNCHANGED <<parseVars, fetchVars, libVars, askVars, sessionVars, viewVars>>

SpecFetch == InitFetch /\ [][NextFetch]_vars

\* The start of the App over every kind of persisted cache value, with one
\* fetch cycle when the cache does not serve.
InitStart ==
  /\ \E st \in InitStorages :
       AppInit(st, [cycles |-> 1, ticks |-> 0, faults |-> 0, signals |-> 0,
                    texts |-> {GoodText}, slow |-> 0])
  /\ ParseIdle
  /\ FetchIdle
  /\ AskIdle
  /\ SessionIdle
  /\ ViewIdle
  /\ LibIdle

NextStart ==
  \/ Mount /\ UNCHANGED <<parseVars, fetchVars, libVars, askVars, sessionVars, viewVars>>
  \/ \E i \in 1..Len(loads), cat \in Sections, o \in Outcomes :
       CallSettles(i, cat, o) /\ UNCHANGED <<parseVars, fetchVars, libVars, askVars, sessionVars, viewVars>>
  \/ \E i \in 1..Len(loads) : PauseDone(i) /\ UNCHANGED <<parseVars, fetchVars, libVars, askVars, sessionVars, viewVars>>
  \/ AdvanceTime /\ UNCHANGED <<parseVars, fetchVars, libVars, askVars, sessionVars, viewVars>>

SpecStart == InitStart /\ [][NextStart]_vars

\* Two page loads in a row: the first finds nothing cached and runs one fetch
\* cycle, the page is loaded again after a delay around the 8 hour threshold.
ReloadDelays == {0, 1000, REFRESH_INTERVAL - 1, REFRESH_INTERVAL}

InitReload ==
  /\ AppInit(Absent, [cycles |-> 1, ticks |-> 0, faults |-> 0, signals |-> 0,
                      texts |-> {GoodText}, slow |-> 0])
  /\ ParseIdle
  /\ FetchIdle
  /\ AskIdle
  /\ SessionIdle
  /\ ViewIdle
  /\ LibIdle

NextReload ==
  \/ Mount /\ UNCHANGED <<parseVars, fetchVars, libVars, askVars, sessionVars, viewVars>>
  \/ \E i \in 1..Len(loads), cat \in Sections, o \in Outcomes :
       CallSettles(i, cat, o) /\ UNCHANGED <<parseVars, fetchVars, libVars, askVars, sessionVars, viewVars>>
  \/ \E i \in 1..Len(loads) : PauseDone(i) /\ UNCHANGED <<parseVars, fetchVars, libVars, askVars, sessionVars, viewVars>>
  \/ AdvanceTime /\ UNCHANGED <<parseVars, fetchVars, libVars, askVars, sessionVars, viewVars>>
  \/ \E dt \in ReloadDelays :
       Reload(dt) /\ UNCHANGED <<parseVars, fetchVars, libVars, askVars, viewVars>>

SpecReload == InitReload /\ [][NextReload]_vars

\* Every invocation of loadTopics to its end: nothing cached or a fresh
\* snapshot at start, the buttons, a service that may answer the news request
\* with 429 or with another error as often as the budget lets it, which is more
\* often than one request is retried.  The mount effect runs, timers fire
\* when due and every external call settles.
MaxLiveSignals == DefaultRetries + 2

LiveOutcomes ==
  {o \in Outcomes : /\ o.kind = "ok" => o.text = GoodText
                    /\ o.kind = "error" => (o.status \in {429, 500} /\ o.code = 0)}

InitLive ==
  /\ \E st \in {Absent, Snapshot(StartTime - 1000, OldData(StartTime - 1000))} :
       AppInit(st, [cycles |-> MaxCycles, ticks |-> 0, faults |-> MaxLiveSignals,
                    signals |-> MaxLiveSignals, texts |-> {GoodText}, slow |-> 0])
  /\ ParseIdle
  /\ FetchIdle
  /\ AskIdle
  /\ SessionIdle
  /\ ViewIdle
  /\ LibIdle

LiveMount ==
  Mount /\ UNCHANGED <<parseVars, fetchVars, libVars, askVars, sessionVars, viewVars>>

LiveSettle ==
  \E i \in 1..Len(loads), cat \in Sections, o \in LiveOutcomes :
    /\ IsFault(o) => cat = "news"
    /\ CallSettles(i, cat, o)
    /\ UNCHANGED <<parseVars, fetchVars, libVars, askVars, sessionVars, viewVars>>

LiveBackoff ==
  \E i \in 1..Len(loads), cat \in Sections :
    BackoffDone(i, cat) /\ UNCHANGED <<parseVars, fetchVars, libVars, askVars, sessionVars, viewVars>>

LivePause ==
  \E i \in 1..Len(loads) :
    PauseDone(i) /\ UNCHANGED <<parseVars, fetchVars, libVars, askVars, sessionVars, viewVars>>

LiveTime ==
  AdvanceTime /\ UNCHANGED <<parseVars, fetchVars, libVars, askVars, sessionVars, viewVars>>

NextLive ==
  \/ LiveMount
  \/ HandleRefresh /\ UNCHANGED <<parseVars, fetchVars, libVars, askVars, sessionVars, viewVars>>
  \/ TryAgain /\ UNCHANGED <<parseVars, fetchVars, libVars, askVars, sessionVars, viewVars>>
  \/ LiveSettle
  \/ LiveBackoff
  \/ LivePause
  \/ LiveTime

\* LiveSettle is enabled exactly when a request is pending (the service may
\* always answer with usable text), and its steps are the steps in which a
\* pending request stops being pending.
CallPending ==
  \E i \in 1..Len(loads) :
    loads[i].pc = "batch" /\ \E c \in Sections : loads[i].calls[c].st = "inflight"

CallAnswered ==
  /\ Len(loads') = Len(loads)
  /\ \E i \in 1..Len(loads), cat \in Sections :
       loads[i].calls[cat].st = "inflight" /\ loads'[i].calls[cat].st # "inflight"

\* Weak fairness of LiveSettle, written out with its enabling condition: a
\* request that stays pending is answered.
CallsSettle == []<>(~CallPending) \/ []<><<CallAnswered>>_vars

SpecLive ==
  /\ InitLive
  /\ [][NextLive]_vars
  /\ WF_vars(LiveMount)
  /\ WF_vars(LiveBackoff)
  /\ WF_vars(LivePause)
  /\ WF_vars(LiveTime)
  /\ CallsSettle

(***************************************************************************)
(* One category fetch on its own: fetchTopicsByCategory called once, the   *)
(* service free to answer each call with any outcome                       *)
(***************************************************************************)
FetchStart(cat) ==
  /\ fetch.stage = "idle"
  /\ fetch' = [stage |-> "running", cat |-> cat, startedAt |-> now,
               call |-> IssueCall(IdleCall)]
  /\ UNCHANGED now

FetchSettles(o) ==
  /\ fetch.stage = "running"
  /\ fetch.call.st = "inflight"
  /\ \E call2 \in {Respond(fetch.call, o, fetch.cat, now)} :
       fetch' = [fetch EXCEPT !.call = call2,
                              !.stage = IF call2.st = "settled" THEN "returned"
                                        ELSE "running"]
  /\ UNCHANGED now

\* delay(waitTime) runs out
FetchBackoffDone ==
  /\ fetch.stage = "running"
  /\ fetch.call.st = "backoff"
  /\ now' = fetch.call.due
  /\ fetch' = [fetch EXCEPT !.call = Retry(@)]

InitCall ==
  /\ AppInit(Absent, [cycles |-> 0, ticks |-> 0, faults |-> 0, signals |-> 0,
                      texts |-> {}, slow |-> 0])
  /\ ParseIdle
  /\ FetchIdle
  /\ AskIdle
  /\ SessionIdle
  /\ ViewIdle
  /\ LibIdle

NextCall ==
  \/ \E cat \in Sections : FetchStart(cat) /\ UNCHANGED <<appState, parseVars, libVars, askVars, sessionVars, viewVars>>
  \/ \E o \in Outcomes : FetchSettles(o) /\ UNCHANGED <<appState, parseVars, libVars, askVars, sessionVars, viewVars>>
  \/ FetchBackoffDone /\ UNCHANGED <<appState, parseVars, libVars, askVars, sessionVars, viewVars>>

SpecCall == InitCall /\ [][NextCall]_vars

(***************************************************************************)
(* Saved topics and preferences on their own: the App starts over some     *)
(* stored items, then bookmarks and section switches are clicked            *)
(***************************************************************************)
\* Topics to bookmark: three titles, two of them equal but for the case, each
\* as the topic of two different fetches.
SampleTopics ==
  {[id |-> i, title |-> t] : i \in {"news-0", "f-news-1"}, t \in {"a", "A", "b"}}

\* The saved items found at start: none, the empty string, no JSON, and lists
\* as the App writes them.
SavedItems ==
  {NoItem, EmptyItem, BadItem, JsonStringify(<<>>),
   JsonStringify(<<[id |-> "news-0", title |-> "a"]>>),
   JsonStringify(<<[id |-> "news-0", title |-> "b"], [id |-> "f-news-1", title |-> "a"]>>),
   JsonStringify(<<[id |-> "news-0", title |-> "a"], [id |-> "news-0", title |-> "A"],
                   [id |-> "f-news-1", title |-> "b"]>>)}

\* The preference items found at start: none, the empty string, no JSON, the
\* map the App writes, a map of an older version without "tech", a map with
\* the key "foo" and without "tech".
PrefsItems ==
  {NoItem, EmptyItem, BadItem,
   JsonStringify([c \in Sections |-> c # "music"]),
   JsonStringify([c \in Sections \ {"tech"} |-> c # "news"]),
   JsonStringify([c \in (Sections \ {"tech"}) \cup {"foo"} |-> c \notin {"foo", "gaming"}])}

\* The section switches that are clicked.
ToggleIds == {"news", "tech", "wildlife"}

InitLib ==
  /\ AppInit(Absent, [cycles |-> 0, ticks |-> 0, faults |-> 0, signals |-> 0,
                      texts |-> {}, slow |-> 0])
  /\ ParseIdle
  /\ FetchIdle
  /\ AskIdle
  /\ SessionIdle
  /\ ViewIdle
  /\ \E si \in SavedItems, pi \in PrefsItems :
       /\ si = NoItem \/ pi = NoItem \/ (si = BadItem /\ pi = BadItem)
                      \/ (si.kind = "json" /\ pi.kind = "json" /\ Len(si.value) = 2)
       /\ savedItem = si
       /\ prefsItem = pi
  /\ savedTopics = <<>>
  /\ visibleSections = <<>>
  /\ appPhase = "start"
  /\ effects = {}
  /\ toggled = <<>>

NextLib ==
  \/ AppRender /\ UNCHANGED <<appVars, fetchVars, parseVars, askVars, sessionVars, viewVars>>
  \/ \E topic \in SampleTopics : ToggleSave(topic) /\ UNCHANGED <<appVars, fetchVars, parseVars, askVars, sessionVars, viewVars>>
  \/ \E id \in ToggleIds : ToggleVisible(id) /\ UNCHANGED <<appVars, fetchVars, parseVars, askVars, sessionVars, viewVars>>
  \/ \E writeOk \in BOOLEAN : PersistPrefs(writeOk) /\ UNCHANGED <<appVars, fetchVars, parseVars, askVars, sessionVars, viewVars>>
  \/ \E writeOk \in BOOLEAN : PersistSaved(writeOk) /\ UNCHANGED <<appVars, fetchVars, parseVars, askVars, sessionVars, viewVars>>

SpecLib == InitLib /\ [][NextLib]_vars

(***************************************************************************)
(* fetchTopicDetails and fetchChatResponse on their own: one call, the     *)
(* service free to answer with any outcome                                 *)
(***************************************************************************)
\* A grounding chunk with a web source, titled or not, or without one; its
\* uri tells its place in the response.
Chunk(kind, i) ==
  [web |-> kind # "other", title |-> IF kind = "web" THEN "title" ELSE "", uri |-> i]

\* Lists of n chunks, all titled web sources but for the one at place p.
ChunkLists ==
  {[i \in 1..n |-> Chunk(IF i = p THEN kind ELSE "web", i)] :
     n \in 0..MaxChunks, p \in 0..MaxChunks, kind \in {"untitled", "other"}}

\* The outcomes of the external call of fetchTopicDetails and
\* fetchChatResponse: a response with a text, maybe empty, and maybe
\* grounding chunks, or an error.
AskOutcomes ==
  {[kind |-> "ok", text |-> t, status |-> 0, code |-> 0, hasChunks |-> TRUE, chunks |-> cs] :
     t \in {"", "narrative"}, cs \in ChunkLists}
  \cup {[kind |-> "ok", text |-> t, status |-> 0, code |-> 0, hasChunks |-> FALSE,
         chunks |-> <<>>] : t \in {"", "narrative"}}
  \cup {[kind |-> "error", text |-> "", status |-> e.status, code |-> e.code,
         hasChunks |-> FALSE, chunks |-> <<>>] : e \in ErrorShapes}

AskStart(op) ==
  /\ ask.stage = "idle"
  /\ ask' = [op |-> op, stage |-> "running", startedAt |-> now, call |-> IssueCall(IdleCall),
             answer |-> <<>>]
  /\ UNCHANGED now

\* The external call settles; the response that ends the call is kept.
AskSettles(o) ==
  /\ ask.stage = "running"
  /\ ask.call.st = "inflight"
  /\ ask.op = "chat" => (o.hasChunks => o.chunks = <<>>)
  /\ \E call2 \in {IF ask.op = "details" THEN FetchTopicDetails(ask.call, o, now)
                   ELSE FetchChatResponse(ask.call, o, now)} :
       ask' = [ask EXCEPT !.call = call2,
                          !.answer = <<o>>,
                          !.stage = IF call2.st = "settled" THEN "returned"
                                    ELSE IF call2.st = "rejected" THEN "threw"
                                    ELSE "running"]
  /\ UNCHANGED now

\* delay(waitTime) runs out
AskBackoffDone ==
  /\ ask.stage = "running"
  /\ ask.call.st = "backoff"
  /\ now' = ask.call.due
  /\ ask' = [ask EXCEPT !.call = Retry(@)]

InitAsk ==
  /\ AppInit(Absent, [cycles |-> 0, ticks |-> 0, faults |-> 0, signals |-> 0,
                      texts |-> {}, slow |-> 0])
  /\ ParseIdle
  /\ FetchIdle
  /\ AskIdle
  /\ SessionIdle
  /\ ViewIdle
  /\ LibIdle

NextAsk ==
  \/ \E op \in {"details", "chat"} : AskStart(op) /\ UNCHANGED <<appState, parseVars, fetchVars, libVars, sessionVars, viewVars>>
  \/ \E o \in AskOutcomes : AskSettles(o) /\ UNCHANGED <<appState, parseVars, fetchVars, libVars, sessionVars, viewVars>>
  \/ AskBackoffDone /\ UNCHANGED <<appState, parseVars, fetchVars, libVars, sessionVars, viewVars>>

SpecAsk == InitAsk /\ [][NextAsk]_vars

\* The grid and the detail view: topics are opened and closed, the timers of
\* handleBack fire, detail requests return in any order, with details or
\* with the placeholder of a failed call.
ViewTopics == {t \in SampleTopics : t.id = "news-0" /\ t.title \in {"a", "b"}}

DetailAnswers ==
  {o \in AskOutcomes : /\ ~o.hasChunks
                       /\ o.kind = "ok" => o.text = "narrative"
                       /\ o.kind = "error" => (o.status = 500 /\ o.code = 0)}

InitView ==
  /\ AppInit(Absent, [cycles |-> 0, ticks |-> 0, faults |-> 0, signals |-> 0,
                      texts |-> {}, slow |-> 0])
  /\ ParseIdle
  /\ FetchIdle
  /\ AskIdle
  /\ SessionIdle
  /\ ViewIdle
  /\ LibIdle

NextView ==
  \/ \E topic \in ViewTopics :
       HandleTopicClick(topic) /\ UNCHANGED <<appState, parseVars, fetchVars, libVars, askVars, sessionVars>>
  \/ HandleBack /\ UNCHANGED <<appState, parseVars, fetchVars, libVars, askVars, sessionVars>>
  \/ ClearSelectedTopic /\ UNCHANGED <<appState, parseVars, fetchVars, libVars, askVars, sessionVars>>
  \/ \E r \in 1..Len(details), o \in DetailAnswers :
       DetailsSettle(r, o) /\ UNCHANGED <<appState, parseVars, fetchVars, libVars, askVars, sessionVars>>
  \/ ViewAdvance /\ UNCHANGED <<appState, parseVars, fetchVars, libVars, askVars, sessionVars>>

SpecView == InitView /\ [][NextView]_vars

(***************************************************************************)
(* The parser on its own: a response text is put together line by line and *)
(* parsed as the success path of fetchTopicsByCategory parses it            *)
(***************************************************************************)
GoodLine == <<TS, PIPE, "a", PIPE, "b", PIPE, "c", PIPE, TE>>

JunkLine == <<"junk">>

PlainLines == {GoodLine, JunkLine}

\* Lines that try the pattern: text around the match, blanks to trim, a
\* carriage return after or inside the record, too few fields, too many,
\* empty fields, no pipe after the start marker, a record inside a record,
\* the empty line.
OddLines ==
  {<<"x", TS, PIPE, SP, "a", SP, PIPE, "b", PIPE, "c", SP, PIPE, TE, CR>>,
   <<TS, PIPE, "a", CR, PIPE, "b", PIPE, "c", PIPE, TE>>,
   <<TS, PIPE, "a", PIPE, "b", PIPE, TE>>,
   <<TS, PIPE, "a", PIPE, "b", PIPE, "c", PIPE, "d", PIPE, TE>>,
   <<TS, PIPE, PIPE, PIPE, PIPE, TE>>,
   <<TS, "a", PIPE, "b", PIPE, "c", PIPE, "d", PIPE, TE>>,
   <<TS, PIPE, "a", PIPE, TS, PIPE, "x", PIPE, "y", PIPE, "z", PIPE, TE>>,
   <<>>}

ParseCategories == {"news", "memes"}

\* The first line may be any sample line, the later ones are plain.
PAppend(l) ==
  /\ pstage = "idle"
  /\ Len(plines) < MaxLines
  /\ l \in OddLines => plines = <<>>
  /\ plines' = Append(plines, l)
  /\ UNCHANGED <<pstage, pcat, pout>>

PParse(cat) ==
  /\ pstage = "idle"
  /\ pstage' = "parsed"
  /\ pcat' = cat
  /\ pout' = ParseTopics(JoinLines(plines), cat, now)
  /\ UNCHANGED plines

InitParse ==
  /\ AppInit(Absent, [cycles |-> 0, ticks |-> 0, faults |-> 0, signals |-> 0,
                      texts |-> {}, slow |-> 0])
  /\ ParseIdle
  /\ FetchIdle
  /\ AskIdle
  /\ SessionIdle
  /\ ViewIdle
  /\ LibIdle

NextParse ==
  \/ \E l \in PlainLines \cup OddLines : PAppend(l) /\ UNCHANGED <<appVars, fetchVars, libVars, askVars, sessionVars, viewVars>>
  \/ \E cat \in ParseCategories : PParse(cat) /\ UNCHANGED <<appVars, fetchVars, libVars, askVars, sessionVars, viewVars>>

SpecParse == InitParse /\ [][NextParse]_vars

(***************************************************************************)
(* Properties                                                              *)
(***************************************************************************)
Last(q) == q[Len(q)]

LoadStarted == Len(loads') = Len(loads) + 1

IssuedBatchOne(ld) ==
  /\ ld.pc = "batch"
  /\ \A c \in {"news", "tech"} : ld.calls[c].st = "inflight" /\ ld.calls[c].attempts = 1
  /\ \A c \in Sections \ {"news", "tech"} : ld.calls[c].attempts = 0

NoCallIssued(ld) == \A c \in Sections : ld.calls[c].attempts = 0

\* The persisted value parses as a snapshot: JSON with a timestamp and data.
ParsesAsSnapshot(st) == st.kind = "json" /\ st.hasTimestamp /\ st.hasData

\* C1: loadTopics(false) on a persisted snapshot that parses shows the
\* snapshot's topic sets and issues no external call if and only if
\* now - snapshot.timestamp < 8 hours; at 8 hours or more, or with no
\* snapshot, it starts a fetch cycle (the requests of the first group go out).
C1_UnforcedLoadServesCacheIffFresh ==
  [][(LoadStarted /\ ~Last(loads').force) =>
       /\ ParsesAsSnapshot(storage) /\ now - storage.timestamp < 8 * 60 * 60 * 1000 =>
            /\ Last(loads').pc = "cached"
            /\ NoCallIssued(Last(loads'))
            /\ \A c \in Sections :
                 topics'[c] = IF c \in DOMAIN storage.data THEN storage.data[c] ELSE <<>>
       /\ ParsesAsSnapshot(storage) /\ now - storage.timestamp >= 8 * 60 * 60 * 1000 =>
            /\ IssuedBatchOne(Last(loads'))
            /\ topics' = topics
       /\ storage.kind = "absent" => IssuedBatchOne(Last(loads')) /\ topics' = topics
       /\ Last(loads').pc \in {"cached", "batch"}]_vars

\* C1 witness: the cache served a snapshot one millisecond younger than 8 hours.
C1_Witness ==
  /\ loads # <<>>
  /\ loads[1].pc = "cached"
  /\ ~loads[1].force
  /\ loads[1].startedAt - storage.timestamp = 8 * 60 * 60 * 1000 - 1
  /\ topics = [c \in Sections |-> storage.data[c]]

\* C2: loadTopics(true) always starts a fetch cycle (the requests of the first
\* group go out) and neither reads nor serves the persisted snapshot, whatever
\* its age.
C2_ForcedLoadAlwaysFetches ==
  [][(LoadStarted /\ Last(loads').force) =>
       /\ IssuedBatchOne(Last(loads'))
       /\ topics' = topics
       /\ lastUpdated' = lastUpdated
       /\ storage' = storage]_vars

\* C2 witness: a forced load has just started its cycle although the persisted
\* snapshot is younger than 8 hours.
C2_Witness ==
  \E i \in 1..Len(loads) :
    /\ loads[i].force
    /\ loads[i].startedAt = now
    /\ IssuedBatchOne(loads[i])
    /\ ParsesAsSnapshot(storage)
    /\ now - storage.timestamp >= 0
    /\ now - storage.timestamp < 8 * 60 * 60 * 1000

AllSignals(log) == \A k \in 1..Len(log) : log[k] = "signal"

\* C3: a category fetch whose every external call is answered with a
\* rate-limit / unavailable signal makes exactly 4 calls, waits 2 s, 4 s and
\* 6 s before the retries (12 s in all), then returns the category's fallback;
\* it does not raise.
C3_ExhaustedRetriesFallBack ==
  (fetch.stage # "idle" /\ AllSignals(fetch.call.log)) =>
    /\ fetch.call.attempts <= 4
    /\ fetch.call.st # "rejected"
    /\ Len(fetch.call.log) = 4 => fetch.stage = "returned"
    /\ fetch.stage = "returned" =>
         /\ fetch.call.attempts = 4
         /\ fetch.call.waits = <<2000, 4000, 6000>>
         /\ now - fetch.startedAt = 12000
         /\ fetch.call.st = "settled"
         /\ fetch.call.result = FallbackData(fetch.cat)

\* C3 witness: the fetch returned after four rate-limit signals.
C3_Witness ==
  /\ fetch.stage = "returned"
  /\ Len(fetch.call.log) = 4
  /\ AllSignals(fetch.call.log)

\* C4: when an external call of a category fetch fails with an error that is
\* no rate-limit / unavailable signal, no further call is made for the
\* category and the fetch returns the category's fallback; the error does not
\* reach the caller.
C4_OtherErrorFallsBackAtOnce ==
  \A k \in 1..Len(fetch.call.log) :
    fetch.call.log[k] = "other" =>
      /\ k = Len(fetch.call.log)
      /\ fetch.call.attempts = k
      /\ fetch.stage = "returned"
      /\ fetch.call.st = "settled"
      /\ fetch.call.result = FallbackData(fetch.cat)

\* C4 witness: the fetch returned on another error, after one retry.
C4_Witness ==
  /\ fetch.stage = "returned"
  /\ fetch.call.log = <<"signal", "other">>

\* The line holds TOPIC_START|...|...|...|TOPIC_END: the start marker and a
\* pipe, later a pipe and the end marker, at least two more pipes in between
\* and no line terminator inside.
HasRecord(line) ==
  \E i \in 1..Len(line), c \in 1..Len(line) :
    /\ i + 1 < c
    /\ c + 1 <= Len(line)
    /\ line[i] = TS
    /\ line[i + 1] = PIPE
    /\ line[c] = PIPE
    /\ line[c + 1] = TE
    /\ Cardinality({p \in (i + 2)..(c - 1) : line[p] = PIPE}) >= 2
    /\ \A p \in (i + 2)..(c - 1) : line[p] # CR

\* The lines of the text put together: the empty text is one empty line.
TextLines == IF plines = <<>> THEN << <<>> >> ELSE plines

RecordLines == {i \in 1..Len(TextLines) : HasRecord(TextLines[i])}

\* The k-th smallest element of a set of numbers.
Kth(S, k) == CHOOSE x \in S : Cardinality({y \in S : y < x}) = k - 1

\* C5: for every successful response text the category fetch returns the
\* records of the first 10 lines that match the pattern, in line order,
\* skipping the other lines; if no line matches it returns the category's
\* fallback.  The result has at most 10 entries and is never empty.
C5_FirstTenRecordsOrFallback ==
  pstage = "parsed" =>
    \E hits \in {RecordLines} :
      /\ Len(pout) >= 1
      /\ Len(pout) <= 10
      /\ IF hits = {}
         THEN pout = FallbackData(pcat)
         ELSE /\ Len(pout) = IF Cardinality(hits) < 10 THEN Cardinality(hits) ELSE 10
              /\ \A k \in 1..Len(pout) :
                   /\ pout[k].id = <<CategoryPrefix(pcat), Kth(hits, k) - 1, now>>
                   /\ \E m \in RegexMatch(TextLines[Kth(hits, k)]) :
                        pout[k].title = Trim(m.g1)

\* C5 witness: a text of 11 record lines after a line without record was
\* parsed to the first 10 records.
C5_Witness ==
  /\ pstage = "parsed"
  /\ Len(pout) = 10
  /\ pout[1].id[2] = 1
  /\ ~HasRecord(TextLines[1])
  /\ Cardinality(RecordLines) = 11

ExpectedGroups ==
  <<{"news", "tech"}, {"music", "billboard", "hiphop"}, {"memes", "gaming"},
    {"landscapes", "wildlife"}>>

Issued(ld, c) == ld.calls[c].attempts > 0

\* C6: within a fetch cycle the groups run in the order {news, tech},
\* {music, billboard, hiphop}, {memes, gaming}, {landscapes, wildlife}: a
\* request of group k+1 is issued only when every request of group k has
\* settled, retries included, and 1.5 s have passed since; the requests of a
\* group are issued together.
C6_GroupsInOrderWithPause ==
  \A i \in 1..Len(loads) : \A k \in 1..4 : \A c \in ExpectedGroups[k] :
    Issued(loads[i], c) =>
      /\ \A d \in ExpectedGroups[k] : Issued(loads[i], d)
      /\ Len(loads[i].issuedAt) >= k
      /\ k > 1 =>
           /\ \A d \in ExpectedGroups[k - 1] :
                /\ loads[i].calls[d].st = "settled"
                /\ loads[i].calls[d].result # <<>>
           /\ Len(loads[i].settledAt) >= k - 1
           /\ loads[i].issuedAt[k] >= loads[i].settledAt[k - 1] + 1500
           /\ loads[i].settledAt[k - 1] >= loads[i].issuedAt[k - 1]

\* C6 witness: the third group went out 1.5 s after the second group settled,
\* which a retry had held up by 2 s.
C6_Witness ==
  /\ loads # <<>>
  /\ Issued(loads[1], "memes")
  /\ Issued(loads[1], "gaming")
  /\ \E d \in ExpectedGroups[2] : loads[1].calls[d].waits = <<2000>>
  /\ loads[1].issuedAt[3] - loads[1].issuedAt[2] = 3500

\* The topic records without the time stamp of their ids.
Undated(ts) == [k \in 1..Len(ts) |-> [ts[k] EXCEPT !.id = <<@[1], @[2]>>]]

Failed(ld, c) == Last(ld.calls[c].log) # "ok"

\* The result a category must have once its fetch settled: its fallback if
\* its external calls failed, else what its own response text parses to.
OwnResult(ld, c) ==
  IF Failed(ld, c)
  THEN ld.calls[c].result = FallbackData(c)
  ELSE Undated(ld.calls[c].result) = Undated(ParseTopics(GoodText, c, 0))

\* C7: whichever categories' external calls fail, none to all nine, a cycle
\* that went through its four groups holds the fallback for each failing
\* category and the own parsed result for each other one, and shows them;
\* when the snapshot was written, no error is set and the snapshot holds
\* these nine results.  No error is set while the cycle runs.
C7_FailingCategoriesFallBackAlone ==
  \A i \in 1..Len(loads) :
    /\ loads[i].pc \in {"batch", "pause"} => error = Null
    /\ loads[i].pc \in {"done", "failed"} =>
         /\ loads[i].batch = 4
         /\ \A c \in Sections :
              /\ loads[i].calls[c].st = "settled"
              /\ OwnResult(loads[i], c)
              /\ topics[c] = loads[i].calls[c].result
    /\ loads[i].pc = "done" =>
         /\ error = Null
         /\ storage = Snapshot(lastUpdated, Results(loads[i].calls))
         /\ ~loading
         /\ ~refreshing

\* C7 witness: a cycle completed and persisted its snapshot with all nine
\* categories failing.
C7_Witness ==
  /\ loads # <<>>
  /\ loads[1].pc = "done"
  /\ \A c \in Sections : Failed(loads[1], c)
  /\ storage.kind = "json"
  /\ storage.data = [c \in Sections |-> FallbackData(c)]

\* C7 second case: some categories failed, their siblings did not.
C7_WitnessMixed ==
  /\ loads # <<>>
  /\ loads[1].pc = "done"
  /\ Failed(loads[1], "news")
  /\ ~Failed(loads[1], "tech")
  /\ Failed(loads[1], "memes")
  /\ ~Failed(loads[1], "wildlife")

\* The step in which invocation i of loadTopics ends in its catch block.
EndsInError(i) ==
  /\ i <= Len(loads)
  /\ loads[i].pc # "failed"
  /\ loads'[i].pc = "failed"

\* C8: a cycle that ended in error has set the error state and left every
\* topic set as it was before the cycle (empty: the cycle is the first load of
\* a session without snapshot).
C8_AsStated ==
  (loads # <<>> /\ loads[1].pc = "failed") =>
    /\ error = ErrorMessage
    /\ topics = EmptyTopics

\* C8 witness: the write of the snapshot threw at the end of the first cycle
\* of a session without snapshot; the error state is set, and the topic sets
\* are no longer the empty ones the cycle started from.
C8_Witness ==
  /\ loads # <<>>
  /\ loads[1].pc = "failed"
  /\ error = ErrorMessage
  /\ storage = Absent
  /\ topics # EmptyTopics

\* The data of the snapshot is one entry per category, each the result that
\* invocation i holds for it.
SnapshotOf(st, ld) ==
  /\ st.kind = "json"
  /\ DOMAIN st.data = {"news", "tech", "music", "billboard", "hiphop", "memes",
                       "gaming", "landscapes", "wildlife"}
  /\ \A c \in DOMAIN st.data : st.data[c] = ld.calls[c].result /\ st.data[c] # <<>>

\* C9: the persisted snapshot is absent or holds one entry for each of the
\* nine categories; it changes only in the step that ends a cycle whose four
\* groups completed, and then to the nine results of that one cycle, also
\* while another cycle is under way.
C9_SnapshotWholeFromOneCycle ==
  /\ [](storage.kind = "absent"
         \/ (storage.kind = "json" /\ DOMAIN storage.data = Sections
                                   /\ Cardinality(DOMAIN storage.data) = 9))
  /\ [][storage' # storage =>
          \E i \in 1..Len(loads) :
            /\ loads[i].pc = "batch"
            /\ loads[i].batch = 4
            /\ loads'[i].pc = "done"
            /\ \A c \in Sections : loads'[i].calls[c].st = "settled"
            /\ SnapshotOf(storage', loads'[i])
            /\ storage'.timestamp = now]_vars

\* C9 witness: a cycle wrote its snapshot while another cycle, started before
\* the first ended, had shown two of its groups and was still under way.
C9_Witness ==
  \E i, j \in 1..Len(loads) :
    /\ i # j
    /\ loads[i].pc = "done"
    /\ SnapshotOf(storage, loads[i])
    /\ loads[j].pc \in {"batch", "pause"}
    /\ loads[j].batch >= 2
    /\ loads[j].startedAt < storage.timestamp
    /\ topics["news"] = loads[j].calls["news"].result
    /\ topics["news"] # storage.data["news"]

TickFired == ticks' = ticks + 1

EightHoursPassed == lastUpdated > 0 /\ now - lastUpdated >= 8 * 60 * 60 * 1000

NothingTriggered ==
  /\ loads' = loads
  /\ storage' = storage
  /\ topics' = topics
  /\ loading' = loading
  /\ refreshing' = refreshing
  /\ error' = error
  /\ lastUpdated' = lastUpdated

\* C10 as stated: a tick at 8 hours or more since the last update starts a
\* load with forceRefresh = false, a tick before that triggers nothing.
C10_AsStated ==
  [][TickFired =>
       IF EightHoursPassed
       THEN LoadStarted /\ ~Last(loads').force
       ELSE NothingTriggered]_vars

\* C10: a tick at 8 hours or more since the last update starts a forced load,
\* loadTopics(true): it reads no snapshot, starts a fetch cycle and leaves the
\* topic sets, the loading and the refreshing flag as they are; a tick before
\* that, or with no last update, triggers nothing.
C10_StaleTickForcesRefresh ==
  [][TickFired =>
       IF EightHoursPassed
       THEN /\ LoadStarted
            /\ Last(loads').force
            /\ IssuedBatchOne(Last(loads'))
            /\ topics' = topics
            /\ storage' = storage
            /\ loading' = loading
            /\ refreshing' = refreshing
            /\ lastUpdated' = lastUpdated
            /\ error' = Null
       ELSE NothingTriggered]_vars

\* C10 witness: the tick came at exactly 8 hours after the last update and
\* its forced load is under way.
C10_Witness ==
  /\ ticks = 1
  /\ lastUpdated > 0
  /\ now - lastUpdated = 8 * 60 * 60 * 1000
  /\ loads # <<>>
  /\ Last(loads).force
  /\ Last(loads).startedAt = now
  /\ IssuedBatchOne(Last(loads))

\* C10 second case: the tick came one millisecond before 8 hours and started
\* nothing.
C10_WitnessFresh ==
  /\ ticks = 1
  /\ lastUpdated > 0
  /\ now - lastUpdated = 8 * 60 * 60 * 1000 - 1
  /\ Len(loads) = 1
  /\ loads[1].pc = "cached"

\* The step in which invocation i of loadTopics ends with its snapshot written.
EndsWritten(i) ==
  /\ i <= Len(loads)
  /\ loads[i].pc # "done"
  /\ loads'[i].pc = "done"

\* C11: when a fetch cycle completes, the persisted snapshot becomes the nine
\* results of that cycle with the completion time as its time stamp, and
\* lastUpdated is that same time.
C11_CompletedCycleOverwritesSnapshot ==
  [][\A i \in 1..Len(loads) : EndsWritten(i) =>
       /\ storage'.kind = "json"
       /\ storage'.hasTimestamp
       /\ storage'.timestamp = now
       /\ storage'.hasData
       /\ storage'.data = [c \in Sections |-> loads'[i].calls[c].result]
       /\ storage' # storage
       /\ lastUpdated' = storage'.timestamp]_vars

\* C11 witness: the unforced load at start ran its four groups (4.5 s of
\* pauses) and its snapshot, stamped with the completion time, is in storage.
C11_Witness ==
  /\ loads # <<>>
  /\ ~loads[1].force
  /\ loads[1].pc = "done"
  /\ loads[1].batch = 4
  /\ storage.timestamp = loads[1].startedAt + 4500
  /\ lastUpdated = storage.timestamp
  /\ storage.data["news"] = loads[1].calls["news"].result

\* C12: a persisted cache value that does not parse, or parses without a time
\* stamp or without data, makes loadTopics(false) do what it does with no
\* value at all: it takes no topic set from it, shows no error and starts a
\* fetch cycle.
C12_UnreadableCacheIsAbsent ==
  [][(LoadStarted /\ ~Last(loads').force /\ ~ParsesAsSnapshot(storage)) =>
       /\ Last(loads') =
            [force |-> FALSE, startedAt |-> now, pc |-> "batch", batch |-> 1,
             calls |-> [c \in Sections |->
                          IF c \in {"news", "tech"}
                          THEN [IdleCall EXCEPT !.st = "inflight", !.attempts = 1]
                          ELSE IdleCall],
             pauseUntil |-> 0, issuedAt |-> <<now>>, settledAt |-> <<>>]
       /\ topics' = topics
       /\ error' = Null
       /\ loading'
       /\ refreshing' = refreshing
       /\ lastUpdated' = lastUpdated
       /\ storage' = storage]_vars

\* C12 witness: the load at start found a value that does not parse and its
\* cycle is under way with nothing shown from the value.
C12_Witness ==
  /\ storage.kind = "malformed"
  /\ loads # <<>>
  /\ ~loads[1].force
  /\ loads[1].pc = "batch"
  /\ error = Null
  /\ topics = EmptyTopics

\* C12 second case: the value parses, is young, and has no data.
C12_WitnessNoData ==
  /\ storage.kind = "json"
  /\ ~storage.hasData
  /\ now - storage.timestamp < 8 * 60 * 60 * 1000
  /\ loads # <<>>
  /\ loads[1].pc = "batch"

NineIds ==
  {"news", "tech", "music", "billboard", "hiphop", "memes", "gaming", "landscapes",
   "wildlife"}

\* The step of the first render.
Rendered == appPhase = "start" /\ appPhase' # "start"

\* C13 as stated: a saved item or a preferences item that is no JSON gives the
\* initial state of the absent key, an empty saved collection and all nine
\* sections visible, and the first render ends without exception.
C13_AsStated ==
  [][Rendered =>
       /\ savedItem.kind = "malformed" =>
            /\ appPhase' = "ready"
            /\ savedTopics' = <<>>
       /\ prefsItem.kind = "malformed" =>
            /\ appPhase' = "ready"
            /\ visibleSections' = [c \in NineIds |-> TRUE]]_vars

\* C13 failing state: the first render ended in the SyntaxError of the saved
\* item and the App never became ready.
C13_Witness ==
  /\ savedItem.kind = "malformed"
  /\ appPhase = "crashed"
  /\ effects = {}
  /\ toggled = <<>>

\* C14 as stated: the preferences in memory have exactly the nine section ids
\* as keys, a stored known key with its stored value, a missing one true, and
\* what is written back has exactly the nine keys too.
C14_AsStated ==
  appPhase = "ready" =>
    /\ DOMAIN visibleSections = NineIds
    /\ (toggled = <<>> /\ "prefs" \in effects) =>
         \A k \in NineIds :
           visibleSections[k] =
             IF prefsItem.kind = "json" /\ k \in DOMAIN prefsItem.value
             THEN prefsItem.value[k] ELSE TRUE
    /\ (prefsItem.kind = "json" /\ "prefs" \notin effects) =>
         DOMAIN prefsItem.value = NineIds

\* C14 failing state: the stored map had "foo" and no "tech"; "tech" is true
\* in memory, "foo" is in memory and has been written back.
C14_Witness ==
  /\ appPhase = "ready"
  /\ effects = {}
  /\ toggled = <<>>
  /\ visibleSections["tech"]
  /\ "foo" \in DOMAIN visibleSections
  /\ ~visibleSections["foo"]
  /\ prefsItem.kind = "json"
  /\ "foo" \in DOMAIN prefsItem.value

\* The saved collection after the k-th toggle.
SavedAfter(k) == IF k < Len(toggled) THEN toggled[k + 1].saved ELSE savedTopics

\* Two toggles of the saved collection in succession, k and k + 1, with topics
\* of the same title.
SameTitleTwice(k) ==
  /\ k + 1 <= Len(toggled)
  /\ toggled[k].op = "save"
  /\ toggled[k + 1].op = "save"
  /\ toggled[k].key = toggled[k + 1].key

HasTitle(seq, title) == \E j \in 1..Len(seq) : seq[j].title = title

Without(seq, title) == SelectSeq(seq, LAMBDA t : t.title # title)

\* C15 as stated: two toggles in succession with topics of the same title
\* leave the saved collection as it was before the first, whatever it was.
C15_AsStated ==
  \A k \in 1..Len(toggled) :
    SameTitleTwice(k) => SavedAfter(k + 1) = toggled[k].saved

\* C15: two toggles in succession with topics of the same title leave the
\* saved collection as it was before the first if the title was not in it
\* (saved, then removed).  If the title was in it, the first removes the entry
\* and the second saves its topic anew: that topic is at index 0, followed by
\* the other entries in their order.
C15_DoubleToggle ==
  \A k \in 1..Len(toggled) :
    SameTitleTwice(k) =>
      IF HasTitle(toggled[k].saved, toggled[k].key)
      THEN /\ SavedAfter(k) = Without(toggled[k].saved, toggled[k].key)
           /\ SavedAfter(k + 1) =
                <<toggled[k + 1].arg>> \o Without(toggled[k].saved, toggled[k].key)
      ELSE /\ SavedAfter(k) = <<toggled[k].arg>> \o toggled[k].saved
           /\ SavedAfter(k + 1) = toggled[k].saved

\* C15 witness: "a" was second of two saved topics; toggled twice, it is
\* first.
C15_Witness ==
  \E k \in 1..Len(toggled) :
    /\ SameTitleTwice(k)
    /\ Len(toggled[k].saved) = 2
    /\ toggled[k].saved[2].title = toggled[k].key
    /\ SavedAfter(k + 1)[1].title = toggled[k].key
    /\ SavedAfter(k + 1)[2] = toggled[k].saved[1]

\* C15 second case: a title that was not saved, toggled twice with topics of
\* different ids.
C15_WitnessFresh ==
  \E k \in 1..Len(toggled) :
    /\ SameTitleTwice(k)
    /\ ~HasTitle(toggled[k].saved, toggled[k].key)
    /\ toggled[k].arg # toggled[k + 1].arg
    /\ toggled[k].saved # <<>>
    /\ SavedAfter(k + 1) = toggled[k].saved

\* C16: from an empty saved collection or a stored one without two equal
\* titles, no sequence of toggles gives a saved collection with two entries of
\* the same title; titles that differ in case are different titles.
C16_NoTwoEntriesOfOneTitle ==
  appPhase # "start" =>
    \A i, j \in 1..Len(savedTopics) :
      savedTopics[i].title = savedTopics[j].title => i = j

\* C16 witness: after three toggles "a" and "A" are both saved, each once,
\* although a topic titled "a" with another id was toggled as well.
C16_Witness ==
  /\ Len(toggled) = 3
  /\ \E k \in 1..3 : toggled[k].op = "save" /\ HasTitle(toggled[k].saved, toggled[k].key)
                       /\ \A j \in 1..Len(toggled[k].saved) :
                            toggled[k].saved[j].id # toggled[k].arg.id
  /\ HasTitle(savedTopics, "a")
  /\ HasTitle(savedTopics, "A")

\* The step is a toggle of the saved collection.
SaveToggled == Len(toggled') = Len(toggled) + 1 /\ Last(toggled').op = "save"

\* seq without its element at index i.
Drop(seq, i) == [j \in 1..(Len(seq) - 1) |-> IF j < i THEN seq[j] ELSE seq[j + 1]]

\* C17: a toggle with a title that is not in the saved collection puts the
\* topic at index 0 and leaves the other entries in their order behind it; a
\* toggle with a title that is in it removes that entry and leaves the other
\* entries in their order.
C17_SavedFirstOrderKept ==
  [][SaveToggled =>
       IF \E i \in 1..Len(savedTopics) : savedTopics[i].title = Last(toggled').key
       THEN \E i \in 1..Len(savedTopics) :
              /\ savedTopics[i].title = Last(toggled').key
              /\ savedTopics' = Drop(savedTopics, i)
       ELSE /\ Len(savedTopics') = Len(savedTopics) + 1
            /\ savedTopics'[1] = Last(toggled').arg
            /\ \A j \in 1..Len(savedTopics) : savedTopics'[j + 1] = savedTopics[j]]_vars

\* C17 witness: three topics saved one after the other are in the collection
\* in the reverse order, the last saved first.
C17_Witness ==
  /\ Len(toggled) = 3
  /\ toggled[1].saved = <<>>
  /\ savedTopics = <<toggled[3].arg, toggled[2].arg, toggled[1].arg>>

\* C17 second case: the entry in the middle of three was removed.
C17_WitnessRemoved ==
  /\ toggled # <<>>
  /\ Len(Last(toggled).saved) = 3
  /\ Last(toggled).saved[2].title = Last(toggled).key
  /\ savedTopics = <<Last(toggled).saved[1], Last(toggled).saved[3]>>

\* The step is a toggle of a section.
SectionToggled == Len(toggled') = Len(toggled) + 1 /\ Last(toggled').op = "section"

\* C18: when the persistence effects that follow a change have run, the
\* stored saved list is the saved collection in memory and the stored
\* preferences are the preferences in memory; a section toggle inverts the
\* entry of its section and leaves every other entry as it was.
C18_StoredFollowsMemory ==
  /\ []((appPhase = "ready" /\ effects = {}) =>
          /\ savedItem.kind = "json"
          /\ savedItem.value = savedTopics
          /\ prefsItem.kind = "json"
          /\ prefsItem.value = visibleSections)
  /\ [][SectionToggled =>
          /\ DOMAIN visibleSections' = DOMAIN visibleSections
          /\ \A k \in DOMAIN visibleSections :
               visibleSections'[k] =
                 IF k = Last(toggled').key THEN ~visibleSections[k] ELSE visibleSections[k]
          /\ savedTopics' = savedTopics]_vars

\* C18 witness: a section was switched off and a topic saved, both are in
\* storage as they are in memory, and they differ from what was there at
\* the start.
C18_Witness ==
  /\ appPhase = "ready"
  /\ effects = {}
  /\ Len(toggled) = 2
  /\ toggled[1].op = "section"
  /\ toggled[2].op = "save"
  /\ toggled[1].sections[toggled[1].key]
  /\ ~prefsItem.value[toggled[1].key]
  /\ savedItem.value = <<toggled[2].arg>> \o toggled[2].saved
  /\ prefsItem.value = visibleSections

\* The external call failed for good: an error that is not retried, or the
\* fourth rate-limit signal.
CallFailed(call) ==
  /\ call.log # <<>>
  /\ \/ Last(call.log) = "other"
     \/ (Last(call.log) = "signal" /\ Len(call.log) = 4)

\* The places of the chunks with a web source.
WebChunks(chunks) == {i \in 1..Len(chunks) : chunks[i].web}

\* C19: fetchTopicDetails never throws.  When the external call answers, it
\* returns the narrative ("No details available." for an empty text) with the
\* first 6 grounding chunks that have a web source, in their order, as
\* citations; when the call fails, after its retries if it is retried, it
\* returns the error placeholder with no citation.
C19_DetailsNeverThrow ==
  ask.op = "details" =>
    /\ ask.stage # "threw"
    /\ ask.call.st # "rejected"
    /\ CallFailed(ask.call) => ask.stage = "returned"
    /\ ask.stage = "returned" =>
         IF ask.answer[1].kind = "ok"
         THEN \E web \in {WebChunks(ask.answer[1].chunks)} :
                /\ ask.call.result.markdown =
                     (IF ask.answer[1].text = "" THEN "No details available."
                      ELSE ask.answer[1].text)
                /\ Len(ask.call.result.sourceLinks) <= 6
                /\ Len(ask.call.result.sourceLinks) =
                     (IF Cardinality(web) < 6 THEN Cardinality(web) ELSE 6)
                /\ \A k \in 1..Len(ask.call.result.sourceLinks) :
                     /\ ask.call.result.sourceLinks[k].uri = Kth(web, k)
                     /\ ask.call.result.sourceLinks[k].title =
                          (IF ask.answer[1].chunks[Kth(web, k)].title = "" THEN "Web Source"
                           ELSE ask.answer[1].chunks[Kth(web, k)].title)
         ELSE /\ CallFailed(ask.call)
              /\ ask.call.result =
                   [markdown |-> "## Error\nUnable to fetch details at this time. Please try again later.",
                    sourceLinks |-> <<>>]

\* C19 witness: the response had 8 chunks, the second without web source; the
\* citations are the chunks 1, 3, 4, 5, 6 and 7.
C19_Witness ==
  /\ ask.op = "details"
  /\ ask.stage = "returned"
  /\ ask.answer[1].kind = "ok"
  /\ Len(ask.answer[1].chunks) = 8
  /\ ~ask.answer[1].chunks[2].web
  /\ Len(ask.call.result.sourceLinks) = 6
  /\ ask.call.result.sourceLinks[2].uri = 3
  /\ ask.call.result.sourceLinks[6].uri = 7

\* C19 second case: four rate-limit signals, then the error placeholder.
C19_WitnessFailed ==
  /\ ask.op = "details"
  /\ ask.stage = "returned"
  /\ ask.call.log = <<"signal", "signal", "signal", "signal">>
  /\ ask.call.result.sourceLinks = <<>>
  /\ ask.call.result.markdown = DetailsError

\* C20: fetchChatResponse never throws: it returns the text of the response
\* ("I couldn't find anything on that right now." for an empty text) when the
\* external call answers, and the apology when the call fails.
C20_ChatNeverThrows ==
  ask.op = "chat" =>
    /\ ask.stage # "threw"
    /\ ask.call.st # "rejected"
    /\ CallFailed(ask.call) => ask.stage = "returned"
    /\ ask.stage = "returned" =>
         IF ask.answer[1].kind = "ok"
         THEN ask.call.result =
                (IF ask.answer[1].text = "" THEN "I couldn't find anything on that right now."
                 ELSE ask.answer[1].text)
         ELSE /\ CallFailed(ask.call)
              /\ ask.call.result =
                   "Sorry, I'm having trouble connecting to the network right now."

\* C20 witness: the call was retried once and then failed with an error that
\* is not retried; the apology was returned.
C20_Witness ==
  /\ ask.op = "chat"
  /\ ask.stage = "returned"
  /\ ask.call.log = <<"signal", "other">>
  /\ ask.call.result = ChatError

\* C20 second case: the call answered with a text.
C20_WitnessAnswered ==
  /\ ask.op = "chat"
  /\ ask.stage = "returned"
  /\ ask.call.log = <<"ok">>
  /\ ask.call.result = "narrative"

(***************************************************************************)
(* The cache round trip over a page reload                                 *)
(***************************************************************************)
\* C21: when the page that was left had completed a cycle and persisted its
\* snapshot, the unforced loadTopics of the next page load, run less than
\* 8 hours after the snapshot's time stamp, sets every section's topic list to
\* the list that was persisted and lastUpdated to the snapshot's time stamp,
\* issues no external call and leaves the stored item as it is.
C21_CacheRoundTrip ==
  [][(/\ LoadStarted
      /\ ~Last(loads').force
      /\ session.settled
      /\ now - session.stamp < 8 * 60 * 60 * 1000)
     => (/\ \A c \in Sections : topics'[c] = session.persisted[c]
         /\ lastUpdated' = session.stamp
         /\ lastUpdated' = storage.timestamp
         /\ Last(loads').pc = "cached"
         /\ NoCallIssued(Last(loads'))
         /\ storage' = storage)]_vars

\* The second page load has restored the persisted lists of a completed cycle,
\* some time after that cycle.
C21_Witness ==
  /\ session.reloads = 1
  /\ session.settled
  /\ Len(loads) = 1
  /\ loads[1].pc = "cached"
  /\ now > session.stamp
  /\ topics = session.persisted
  /\ \A c \in Sections : topics[c] # <<>>
  /\ lastUpdated = session.stamp

(***************************************************************************)
(* Failures and the retry                                                  *)
(***************************************************************************)
Finished(ld) == ld.pc \in {"cached", "done", "failed"}

\* C22 (its last sentence): no failure leaves the App in a state from which no
\* retry is possible: whatever failed, the App is still rendered, with its
\* Try Again and Refresh buttons.
C22_AsStated == appPhase # "crashed"

\* C22 witness: the saved item was absent or well formed, the App rendered,
\* a topic was saved, and localStorage.setItem threw in a persistence effect:
\* the error is caught nowhere, the App is unmounted and no button is left.
C22_Witness ==
  /\ appPhase = "crashed"
  /\ savedItem.kind # "malformed"
  /\ toggled # <<>>

(***************************************************************************)
(* Fetch cycles side by side                                               *)
(***************************************************************************)
UnderWay(ld) == ld.pc \in {"batch", "pause"}

CyclesUnderWay == {i \in 1..Len(loads) : UnderWay(loads[i])}

\* C23: a cycle changes lastUpdated only in the step that ends it, so while it
\* is under way lastUpdated keeps the old time; an interval callback that
\* fires 8 hours or more after that time starts a forced cycle whether or not
\* a cycle is under way, and the cycles under way go on beside it.
C23_TickStartsCycleBesideCycle ==
  [][/\ lastUpdated' # lastUpdated =>
          \/ LoadStarted /\ Last(loads').pc = "cached"
          \/ \E i \in CyclesUnderWay : Finished(loads'[i])
     /\ (TickFired /\ EightHoursPassed) =>
          /\ LoadStarted
          /\ Last(loads').force
          /\ IssuedBatchOne(Last(loads'))
          /\ lastUpdated' = lastUpdated
          /\ \A i \in CyclesUnderWay : loads'[i] = loads[i]]_vars

\* Two fetch cycles are under way at once: the second was started by the
\* interval callback, 8 hours after lastUpdated, while the first, started by
\* the Refresh button a minute earlier, had not finished.
C23_Witness ==
  \E i, j \in CyclesUnderWay :
    /\ i < j
    /\ j = Len(loads)
    /\ ticks = 1
    /\ refreshing
    /\ loads[j].startedAt = nextTick - TickIntervalMs
    /\ loads[i].startedAt < loads[j].startedAt
    /\ loads[j].startedAt - lastUpdated >= 8 * 60 * 60 * 1000

\* The Refresh button was clicked: the one step that sets the refreshing flag.
RefreshStep == refreshing' /\ ~refreshing

\* C24: the Refresh button can be clicked whenever the App is mounted and the
\* loading and refreshing flags are both off, also while a fetch cycle is under
\* way; the click starts a forced cycle beside the cycles under way, which go
\* on unchanged.
C24_RefreshStartsCycleBesideCycle ==
  /\ []((mounted /\ ~loading /\ ~refreshing /\ Cycles < limits.cycles)
          => ENABLED HandleRefresh)
  /\ [][RefreshStep =>
          /\ ~loading
          /\ LoadStarted
          /\ Last(loads').force
          /\ IssuedBatchOne(Last(loads'))
          /\ \A i \in CyclesUnderWay : loads'[i] = loads[i]]_vars

\* The interval callback started a cycle; while its second group was pending,
\* Refresh was clicked and started a second cycle: both are under way and the
\* news list on display is the one of the second.
C24_Witness ==
  \E i, j \in CyclesUnderWay :
    /\ i < j
    /\ ticks = 1
    /\ refreshing
    /\ ~loading
    /\ loads[i].startedAt = nextTick - TickIntervalMs
    /\ loads[j].startedAt > loads[i].startedAt
    /\ loads[j].calls["news"].st = "settled"
    /\ topics["news"] = loads[j].calls["news"].result
    /\ topics["news"] # loads[i].calls["news"].result

\* C25 as stated: whenever no fetch cycle is under way and the cycles that
\* finished have all succeeded, the nine topic lists on display are the data
\* of the persisted snapshot and lastUpdated is its time stamp.
C25_AsStated ==
  (/\ CyclesUnderWay = {}
   /\ \E i \in 1..Len(loads) : loads[i].pc = "done"
   /\ \A i \in 1..Len(loads) : loads[i].pc # "failed")
  => /\ storage.kind = "json"
     /\ \A c \in Sections : topics[c] = storage.data[c]
     /\ lastUpdated = storage.timestamp

\* Two cycles ran side by side and both succeeded; none is under way.  The
\* snapshot holds the nine results of the cycle that finished last, but the
\* news list on display is the one of the other cycle, whose first group
\* settled later.
C25_Witness ==
  /\ CyclesUnderWay = {}
  /\ \A k \in 1..Len(loads) : loads[k].pc # "failed"
  /\ \E i, j \in 1..Len(loads) :
       /\ i # j
       /\ loads[i].pc = "done"
       /\ loads[j].pc = "done"
       /\ SnapshotOf(storage, loads[i])
       /\ lastUpdated = storage.timestamp
       /\ topics["news"] = loads[j].calls["news"].result
       /\ topics["news"] # storage.data["news"]
       /\ topics["wildlife"] = storage.data["wildlife"]

(***************************************************************************)
(* Termination of loadTopics                                               *)
(***************************************************************************)
MaxLoads == MaxCycles + 1

Ends(i) ==
  /\ i <= Len(loads)
  /\ ~Finished(loads[i])
  /\ Finished(loads'[i])

\* C26: when every external call settles, every invocation of loadTopics comes
\* to its end, by a cache hit, a written snapshot or a caught error; no
\* request is issued more than four times; and the step that ends an
\* invocation, on each of the three paths, leaves loading and refreshing off.
C26_EveryLoadEndsWithFlagsOff ==
  /\ \A i \in 1..MaxLoads :
       (Len(loads) >= i) ~> (Len(loads) >= i /\ Finished(loads[i]))
  /\ [](\A i \in 1..Len(loads) : \A c \in Sections :
          loads[i].calls[c].attempts <= DefaultRetries + 1)
  /\ [][/\ \A i \in 1..Len(loads) : Ends(i) => (~loading' /\ ~refreshing')
        /\ (LoadStarted /\ Finished(Last(loads'))) =>
             (Last(loads').pc = "cached" /\ ~loading' /\ ~refreshing')]_vars

\* A cycle whose news request was answered 429 four times has ended with its
\* snapshot written, and so has a second cycle; the flags are off.
C26_Witness ==
  /\ Len(loads) = 2
  /\ loads[1].calls["news"].attempts = DefaultRetries + 1
  /\ loads[1].calls["news"].result = FallbackData("news")
  /\ loads[1].pc = "failed"
  /\ loads[2].pc = "done"
  /\ ~loading
  /\ ~refreshing

C27_WitnessFailed ==
  /\ Len(loads) = 1
  /\ loads[1].pc = "failed"
  /\ storage = Absent
  /\ lastUpdated = now
  /\ error # Null

(***************************************************************************)
(* The detail view                                                         *)
(***************************************************************************)
\* C28: the DetailView on screen is the one mounted last, for the selected
\* topic, and no other instance is mounted; what it shows once it stopped
\* loading is the response to the request for the selected topic's title; and
\* a response that arrives at an instance that was unmounted (the view was
\* closed or selectedTopic was cleared) is dropped: the instance's info and
\* loading stay as they were.
C28_DetailsOfSelectedTopic ==
  /\ [](/\ DetailRendered =>
             /\ details # <<>>
             /\ Last(details).mounted
             /\ Last(details).topic = selectedTopic[1]
             /\ ~Last(details).loading =>
                  /\ Last(details).info # <<>>
                  /\ Last(details).info[1].asked = selectedTopic[1].title
        /\ \A r \in 1..Len(details) :
             /\ details[r].mounted => (r = Len(details) /\ DetailRendered)
             /\ details[r].info # <<>> =>
                  /\ details[r].info[1].asked = details[r].topic.title
                  /\ details[r].st = "settled"
                  /\ ~details[r].loading)
  /\ [][\A r \in 1..Len(details) :
          (details[r].st = "pending" /\ details'[r].st = "settled" /\ ~details[r].mounted)
            => (details'[r].info = details[r].info
                /\ details'[r].loading = details[r].loading)]_vars

\* Topic a was opened and closed, topic b opened; the response for b arrived
\* first and is shown, the response for a arrived after it and was dropped.
C28_Witness ==
  /\ DetailRendered
  /\ Len(details) = 2
  /\ details[1].topic.title = "a"
  /\ details[2].topic.title = "b"
  /\ details[2].order = 1
  /\ details[1].order = 2
  /\ details[1].info = <<>>
  /\ ~details[2].loading
  /\ details[2].info[1].asked = "b"
  /\ details[2].info[1].data.markdown = "narrative"

\* C29 as stated: whenever the view is DETAIL a topic is selected.
C29_AsStated == view = "DETAIL" => selectedTopic # <<>>

\* Topic a was opened and closed, topic b opened before the timer of the close
\* was due; the timer fired and cleared the selected topic: the view is DETAIL
\* with no topic selected, the DetailView of b is unmounted and the grid is
\* rendered.
C29_Witness ==
  /\ view = "DETAIL"
  /\ selectedTopic = <<>>
  /\ ~DetailRendered
  /\ Len(details) = 2
  /\ details[1].topic.title = "a"
  /\ details[2].topic.title = "b"
  /\ ~details[2].mounted
  /\ timers = <<>>
====
